---- MODULE Spec2Model ----
(***************************************************************************)
(* Notion Table Sync widget: the record-to-table decoder, the view deriver *)
(* (filter / sort / group), the write-back mapper and the sync             *)
(* orchestrator of widget-src/code.tsx and widget-src/notion-parsers.ts.   *)
(*                                                                         *)
(* Strings of the program are sequences of characters; a character is a    *)
(* one-letter TLA+ string, except the two non-ASCII ones the code uses:    *)
(* EMDASH (U+2014) and CHECK (U+2713).  An optional member (absent, null   *)
(* or undefined in the code) is a sequence of length 0 or 1.               *)
(* Numbers are fixed point with one fractional digit: the integer n stands *)
(* for the JavaScript number n / 10.                                       *)
(***************************************************************************)
EXTENDS Integers, Sequences, FiniteSets, TLC

(***************************************************************************)
(* Bounds of the model.                                                    *)
(***************************************************************************)
MaxSent == 3

(***************************************************************************)
(* Program constants.                                                      *)
(***************************************************************************)
ApiBodyLimit == 100
UpdateBodyLimit == 80

----------------------------------------------------------------------------
(***************************************************************************)
(* Strings.                                                                *)
(***************************************************************************)
EMDASH == "<emdash>"
CHECK == "<check>"

Digits == <<"0", "1", "2", "3", "4", "5", "6", "7", "8", "9">>

IsDigit(c) == \E i \in 1..10 : Digits[i] = c

DigitVal(c) == (CHOOSE i \in 1..10 : Digits[i] = c) - 1

IsSpace(c) == c = " "

UpperLetters == <<"A", "B", "N", "S", "T", "X", "Y">>
LowerLetters == <<"a", "b", "n", "s", "t", "x", "y">>

\* String.prototype.toLowerCase on one character
LowerChar(c) ==
  IF \E i \in 1..Len(UpperLetters) : UpperLetters[i] = c
  THEN LowerLetters[CHOOSE i \in 1..Len(UpperLetters) : UpperLetters[i] = c]
  ELSE c

ToLowerCase(s) == [i \in 1..Len(s) |-> LowerChar(s[i])]

\* String.prototype.trim
RECURSIVE TrimStart(_)
TrimStart(s) ==
  IF s # <<>> /\ IsSpace(Head(s)) THEN TrimStart(Tail(s)) ELSE s

RECURSIVE TrimEnd(_)
TrimEnd(s) ==
  IF s # <<>> /\ IsSpace(s[Len(s)]) THEN TrimEnd(SubSeq(s, 1, Len(s) - 1)) ELSE s

Trim(s) == TrimEnd(TrimStart(s))

\* s.slice(0, n)
Slice0(s, n) == SubSeq(s, 1, IF Len(s) < n THEN Len(s) ELSE n)

\* s.includes(sub)
Includes(s, sub) ==
  \E i \in 0..(Len(s) - Len(sub)) : SubSeq(s, i + 1, i + Len(sub)) = sub

\* s.split(":")
RECURSIVE SplitColon(_)
SplitColon(s) ==
  IF \E i \in 1..Len(s) : s[i] = ":"
  THEN LET i == CHOOSE k \in 1..Len(s) :
                  s[k] = ":" /\ \A j \in 1..(k - 1) : s[j] # ":"
       IN <<SubSeq(s, 1, i - 1)>> \o SplitColon(SubSeq(s, i + 1, Len(s)))
  ELSE <<s>>

\* parts.join(", ")
RECURSIVE JoinComma(_)
JoinComma(parts) ==
  IF parts = <<>> THEN <<>>
  ELSE IF Len(parts) = 1 THEN parts[1]
  ELSE parts[1] \o <<",", " ">> \o JoinComma(Tail(parts))

RECURSIVE Concat(_)
Concat(parts) == IF parts = <<>> THEN <<>> ELSE Head(parts) \o Concat(Tail(parts))

\* /^(1|true|yes)$/i.test(value.trim())
IsTruthyText(value) ==
  LET v == ToLowerCase(Trim(value))
  IN v \in {<<"1">>, <<"t", "r", "u", "e">>, <<"y", "e", "s">>}

----------------------------------------------------------------------------
(***************************************************************************)
(* Numbers: String(n), Number(s), parseFloat(s).  A parse result is an     *)
(* optional number; the empty option is NaN.                               *)
(***************************************************************************)
RECURSIVE NatToStr(_)
NatToStr(n) ==
  IF n < 10 THEN <<Digits[n + 1]>> ELSE NatToStr(n \div 10) \o <<Digits[(n % 10) + 1]>>

\* String(n)
NumToStr(n) ==
  LET a == IF n < 0 THEN 0 - n ELSE n
      whole == NatToStr(a \div 10)
      frac == IF a % 10 = 0 THEN <<>> ELSE <<".", Digits[(a % 10) + 1]>>
  IN (IF n < 0 THEN <<"-">> ELSE <<>>) \o whole \o frac

RECURSIVE DigitsVal(_)
DigitsVal(s) ==
  IF s = <<>> THEN 0 ELSE DigitsVal(SubSeq(s, 1, Len(s) - 1)) * 10 + DigitVal(s[Len(s)])

\* the length of the longest prefix of s made of digits
RECURSIVE DigitRun(_)
DigitRun(s) == IF s # <<>> /\ IsDigit(Head(s)) THEN 1 + DigitRun(Tail(s)) ELSE 0

\* The longest prefix of s that is a decimal literal [+-]? digits (. digits)?
\* | [+-]? . digits, as <<length, value>>; length 0 when there is none.
DecimalPrefix(s) ==
  LET signLen == IF s # <<>> /\ Head(s) \in {"-", "+"} THEN 1 ELSE 0
      neg == s # <<>> /\ Head(s) = "-"
      rest == SubSeq(s, signLen + 1, Len(s))
      intLen == DigitRun(rest)
      afterInt == SubSeq(rest, intLen + 1, Len(rest))
      hasDot == afterInt # <<>> /\ Head(afterInt) = "."
      fracLen == IF hasDot THEN DigitRun(Tail(afterInt)) ELSE 0
      fracDigit == IF fracLen > 0 THEN DigitVal(afterInt[2]) ELSE 0
      mag == DigitsVal(SubSeq(rest, 1, intLen)) * 10 + fracDigit
      len == IF intLen = 0 /\ fracLen = 0 THEN 0
             ELSE signLen + intLen + (IF hasDot THEN 1 + fracLen ELSE 0)
  IN <<len, IF neg THEN 0 - mag ELSE mag>>

\* parseFloat(s): leading white space skipped, the longest numeric prefix
ParseFloat(s) ==
  LET p == DecimalPrefix(TrimStart(s))
  IN IF p[1] = 0 THEN <<>> ELSE <<p[2]>>

\* Number(s): the whole trimmed string is a literal; the empty string is 0
ToNumber(s) ==
  LET t == Trim(s)
      p == DecimalPrefix(t)
  IN IF t = <<>> THEN <<0>>
     ELSE IF p[1] = Len(t) THEN <<p[2]>>
     ELSE <<>>

----------------------------------------------------------------------------
(***************************************************************************)
(* Remote values (notion-types).  A property value is [type, val]: val is  *)
(* the member the type tag names, as an option.  A field map (an object's  *)
(* entries, in insertion order) is a sequence of [name, value].            *)
(*   title, rich_text : a list of runs [plain_text, text], each an         *)
(*                      optional string (text is text.content)             *)
(*   number           : a number                                           *)
(*   select, status   : the option's name                                  *)
(*   multi_select     : a list of options [name], the name optional        *)
(*   checkbox         : a boolean                                          *)
(*   date             : the start string                                   *)
(*   url              : a string                                           *)
(*   people           : a list of users [name], the name optional          *)
(*   formula          : [string, number, boolean], each optional           *)
(*   rollup           : [number, array], optional number and array length  *)
(* A list member is List(items), or NotList when the JSON holds something  *)
(* that is not an array; an element of a list, and the value of a field,   *)
(* can be Null.  A value that is an object without a type tag is Untyped.  *)
(***************************************************************************)
List(items) == [kind |-> "list", items |-> items]
NotList == [kind |-> "object", items |-> <<>>]
Null == [null |-> TRUE]
Untyped == [val |-> <<>>]

IsNull(x) == "null" \in DOMAIN x

\* the outcome of an evaluation that throws a TypeError (a property read on
\* null, a call of .map on something that has none)
TypeError == <<"<TypeError>">>

Named(name) == [name |-> name]

Names(entries) == {entries[i].name : i \in 1..Len(entries)}

\* obj[name] of a field map that has the name
Lookup(entries, name) ==
  entries[CHOOSE i \in 1..Len(entries) : entries[i].name = name].value

Run(plain, content) == [plain_text |-> plain, text |-> content]

\* richTextToStr
richTextToStr(richText) ==
  IF richText = <<>> \/ richText[1].kind # "list" THEN <<>>
  ELSE IF \E i \in 1..Len(richText[1].items) : IsNull(richText[1].items[i]) THEN TypeError
  ELSE Concat([i \in 1..Len(richText[1].items) |->
                 LET t == richText[1].items[i]
                 IN IF t.plain_text # <<>> THEN t.plain_text[1]
                    ELSE IF t.text # <<>> THEN t.text[1]
                    ELSE <<>>])

\* (member != null ? member : []).map((s) => s.name) throws: member has no
\* .map, or an element is null
MapThrows(member) ==
  /\ member # <<>>
  /\ \/ member[1].kind # "list"
     \/ \E i \in 1..Len(member[1].items) : IsNull(member[1].items[i])

\* the names it yields when it does not throw, undefined as the empty option
MapNames(member) ==
  IF member = <<>> THEN <<>>
  ELSE [i \in 1..Len(member[1].items) |-> member[1].items[i].name]

\* an option as join and ?? "" turn it into text
NameText(name) == IF name = <<>> THEN <<>> ELSE name[1]

YesNo(b) == IF b THEN <<"Y", "e", "s">> ELSE <<"N", "o">>

\* one arm of the switch of parseNotionProperties
DecodeValue(v) ==
  CASE "type" \notin DOMAIN v -> <<>>
    [] v.type \in {"title", "rich_text"} -> richTextToStr(v.val)
    [] v.type = "number" -> IF v.val # <<>> THEN NumToStr(v.val[1]) ELSE <<>>
    [] v.type \in {"select", "status"} -> IF v.val # <<>> THEN v.val[1] ELSE <<>>
    [] v.type = "multi_select" ->
         IF MapThrows(v.val) THEN TypeError
         ELSE JoinComma([i \in 1..Len(MapNames(v.val)) |-> NameText(MapNames(v.val)[i])])
    [] v.type = "checkbox" -> YesNo(v.val = <<TRUE>>)
    [] v.type = "date" -> IF v.val # <<>> THEN v.val[1] ELSE <<>>
    [] v.type = "url" -> IF v.val # <<>> THEN v.val[1] ELSE <<>>
    [] v.type = "people" ->
         IF MapThrows(v.val) THEN TypeError
         ELSE JoinComma(SelectSeq([i \in 1..Len(MapNames(v.val)) |->
                                     NameText(MapNames(v.val)[i])],
                                  LAMBDA n : n # <<>>))
    [] v.type = "formula" ->
         IF v.val # <<>> /\ v.val[1].string # <<>> THEN v.val[1].string[1]
         ELSE IF v.val # <<>> /\ v.val[1].number # <<>> THEN NumToStr(v.val[1].number[1])
         ELSE IF v.val # <<>> /\ v.val[1].boolean # <<>> THEN YesNo(v.val[1].boolean[1])
         ELSE <<>>
    [] v.type = "rollup" ->
         IF v.val # <<>> /\ v.val[1].number # <<>> THEN NumToStr(v.val[1].number[1])
         ELSE IF v.val # <<>> /\ v.val[1].array # <<>> THEN NumToStr(v.val[1].array[1] * 10)
         ELSE <<>>
    [] OTHER -> <<>>

\* parseNotionProperties: the cells of one record, keyed by field name; a
\* field whose value is null gets no cell
parseNotionProperties(properties) ==
  [key \in {properties[i].name :
              i \in {j \in 1..Len(properties) : ~IsNull(properties[j].value)}} |->
     DecodeValue(Lookup(properties, key))]

\* parseNotionProperties ends in a TypeError
ParseThrows(properties) ==
  \E i \in 1..Len(properties) :
    ~IsNull(properties[i].value) /\ DecodeValue(properties[i].value) = TypeError

\* a column inference that reads every record: the fields of the first
\* record, then the fields that only later records have
RECURSIVE parseNotionColumnsAll(_)
parseNotionColumnsAll(results) ==
  IF Len(results) = 0 THEN <<>>
  ELSE LET before == parseNotionColumnsAll(SubSeq(results, 1, Len(results) - 1))
           fresh == SelectSeq(results[Len(results)].properties,
                              LAMBDA f : /\ ~IsNull(f.value) /\ "type" \in DOMAIN f.value
                                         /\ \A k \in 1..Len(before) : before[k].name # f.name)
       IN before \o [i \in 1..Len(fresh) |->
                       [name |-> fresh[i].name,
                        propertyName |-> fresh[i].name,
                        type |-> fresh[i].value.type,
                        options |-> <<>>]]

\* parseNotionColumns
parseNotionColumns(results) ==
  IF Len(results) = 0 THEN <<>>
  ELSE LET first == SelectSeq(results[1].properties,
                              LAMBDA f : ~IsNull(f.value) /\ "type" \in DOMAIN f.value)
       IN [i \in 1..Len(first) |->
             [name |-> first[i].name,
              propertyName |-> first[i].name,
              type |-> first[i].value.type,
              options |-> <<>>]]

\* (col.type === "select" && prop.select?.options) ??
\* (col.type === "status" && prop.status?.options):
\* <<"false">>, <<"undefined">> or <<"list", options>>
SchemaOptionsOperand(isType, member) ==
  IF ~isType THEN <<"false">>
  ELSE IF member = <<>> \/ member[1].options = <<>> THEN <<"undefined">>
  ELSE <<"list", member[1].options[1]>>

SchemaOptions(col, prop) ==
  LET a == SchemaOptionsOperand(col.type = "select", prop.select)
      b == SchemaOptionsOperand(col.type = "status", prop.status)
  IN IF a[1] = "undefined" THEN b ELSE a

\* mergeSchemaOptions; schema is an optional [properties], itself optional
mergeSchemaOptions(cols, schema) ==
  IF schema = <<>> \/ schema[1].properties = <<>> THEN cols
  ELSE LET props == schema[1].properties[1]
       IN [i \in 1..Len(cols) |->
             LET col == cols[i]
             IN IF col.propertyName \notin Names(props) THEN col
                ELSE LET opts == SchemaOptions(col, Lookup(props, col.propertyName))
                     IN IF opts[1] # "list" \/ Len(opts[2]) = 0 THEN col
                        ELSE [col EXCEPT !.options =
                                <<[k \in 1..Len(opts[2]) |->
                                     [name |-> opts[2][k].name,
                                      color |-> IF opts[2][k].color # <<>>
                                                THEN opts[2][k].color[1]
                                                ELSE "default"]]>>]]

\* buildNotionPropertyUpdate: the field map of the PATCH body
RichTextOf(value) == <<List(<<Run(<<>>, <<value>>)>>)>>

\* a payload whose text runs carry an empty plain_text next to the content
\* and whose date and url are never null
UpdateValuePlain(type, value) ==
  CASE type = "title" -> [type |-> "title", val |-> <<List(<<Run(<<<<>>>>, <<value>>)>>)>>]
    [] type = "rich_text" ->
         [type |-> "rich_text", val |-> <<List(<<Run(<<<<>>>>, <<value>>)>>)>>]
    [] type = "number" ->
         [type |-> "number", val |-> IF value = <<>> THEN <<>> ELSE ToNumber(value)]
    [] type = "checkbox" -> [type |-> "checkbox", val |-> <<IsTruthyText(value)>>]
    [] type = "date" -> [type |-> "date", val |-> <<Trim(value)>>]
    [] type = "url" -> [type |-> "url", val |-> <<Trim(value)>>]
    [] type = "select" ->
         [type |-> "select", val |-> IF value # <<>> THEN <<value>> ELSE <<>>]
    [] type = "status" ->
         [type |-> "status", val |-> IF value # <<>> THEN <<value>> ELSE <<>>]
    [] OTHER -> [type |-> "rich_text", val |-> RichTextOf(value)]

UpdateValue(type, value) ==
  CASE type = "title" -> [type |-> "title", val |-> RichTextOf(value)]
    [] type = "rich_text" -> [type |-> "rich_text", val |-> RichTextOf(value)]
    [] type = "number" ->
         [type |-> "number", val |-> IF value = <<>> THEN <<>> ELSE ToNumber(value)]
    [] type = "checkbox" -> [type |-> "checkbox", val |-> <<IsTruthyText(value)>>]
    [] type = "date" -> [type |-> "date", val |-> IF value # <<>> THEN <<value>> ELSE <<>>]
    [] type = "url" -> [type |-> "url", val |-> IF value # <<>> THEN <<value>> ELSE <<>>]
    [] type = "select" ->
         [type |-> "select", val |-> IF value # <<>> THEN <<value>> ELSE <<>>]
    [] type = "status" ->
         [type |-> "status", val |-> IF value # <<>> THEN <<value>> ELSE <<>>]
    [] OTHER -> [type |-> "rich_text", val |-> RichTextOf(value)]

buildNotionPropertyUpdate(propertyName, type, value) ==
  <<[name |-> propertyName, value |-> UpdateValue(type, value)]>>

\* digits in groups of three from the right, with commas between
RECURSIVE GroupDigits(_)
GroupDigits(digits) ==
  IF Len(digits) <= 3 THEN digits
  ELSE GroupDigits(SubSeq(digits, 1, Len(digits) - 3)) \o <<",">>
       \o SubSeq(digits, Len(digits) - 2, Len(digits))

\* n.toLocaleString() in the en-US locale
toLocaleString(n) ==
  LET a == IF n < 0 THEN 0 - n ELSE n
      frac == IF a % 10 = 0 THEN <<>> ELSE <<".", Digits[(a % 10) + 1]>>
  IN (IF n < 0 THEN <<"-">> ELSE <<>>) \o GroupDigits(NatToStr(a \div 10)) \o frac

IsoDate == <<"2", "0", "2", "4", "-", "0", "1", "-", "1", "5">>
UsDate == <<"1", "/", "1", "5", "/", "2", "0", "2", "4">>

\* new Date(value).toLocaleDateString() in the en-US locale, as an option
\* that is empty for an invalid date; of the texts of the model only the two
\* spellings of the one date are dates
toLocaleDateString(value) == IF value \in {IsoDate, UsDate} THEN <<UsDate>> ELSE <<>>

\* formatCellForDisplay
formatCellForDisplay(type, value) ==
  IF value = <<>> THEN <<EMDASH>>
  ELSE CASE type = "checkbox" -> IF IsTruthyText(value) THEN <<CHECK>> ELSE <<EMDASH>>
         [] type = "date" ->
              IF toLocaleDateString(value) # <<>> THEN toLocaleDateString(value)[1]
              ELSE value
         [] type = "number" ->
              IF ParseFloat(value) = <<>> THEN value ELSE toLocaleString(ParseFloat(value)[1])
         [] OTHER -> value

\* isReadOnlyType
isReadOnlyType(type) == type \in {"formula", "rollup", "people"}

----------------------------------------------------------------------------
(***************************************************************************)
(* The remote collection and the gateway's answers (the environment).      *)
(***************************************************************************)
Title(text) == [type |-> "title", val |-> <<List(<<Run(<<text>>, <<text>>)>>)>>]
Number(n) == [type |-> "number", val |-> <<n>>]
Select(opt) == [type |-> "select", val |-> opt]
FormulaNumber(n) ==
  [type |-> "formula", val |-> <<[string |-> <<>>, number |-> <<n>>, boolean |-> <<>>]>>]

Field(name, value) == [name |-> name, value |-> value]

Page(id, properties, created, edited) ==
  [id |-> id, properties |-> properties,
   created_time |-> <<created>>, last_edited_time |-> <<edited>>]

SchemaProp(type, selectOptions) ==
  [type |-> type,
   select |-> IF type = "select" THEN <<[options |-> <<selectOptions>>]>> ELSE <<>>,
   status |-> <<>>]

NameField == <<"N">>
ScoreField == <<"S">>
TagField == <<"T">>

\* Scenario A and D of the specification: Name and Score, Score a number;
\* the second record has a field the first record has not
DataNumbers ==
  [pages |-> <<Page("p1", <<Field(NameField, Title(<<"a">>)),
                            Field(ScoreField, Number(100))>>, <<"1">>, <<"2">>),
               Page("p2", <<Field(TagField, Select(<<<<"y">>>>)),
                            Field(NameField, Title(<<"B">>)),
                            Field(ScoreField, Number(70))>>, <<"2">>, <<"1">>)>>,
   schema |-> <<Field(NameField, SchemaProp("title", <<>>)),
                Field(ScoreField, SchemaProp("number", <<>>))>>]

\* Name dropped, Score turned into a formula, a select field added; the
\* second record has no Tag
DataTagged ==
  [pages |-> <<Page("p1", <<Field(ScoreField, FormulaNumber(30)),
                            Field(TagField, Select(<<<<"x">>>>))>>, <<"1">>, <<"2">>),
               Page("p2", <<Field(ScoreField, FormulaNumber(30))>>, <<"2">>, <<"2">>)>>,
   schema |-> <<Field(ScoreField, SchemaProp("formula", <<>>)),
                Field(TagField,
                      SchemaProp("select", <<[name |-> <<"x">>, color |-> <<"red">>],
                                             [name |-> <<"y">>, color |-> <<>>]>>))>>]

DataEmpty == [pages |-> <<>>, schema |-> DataTagged.schema]

Datasets == {DataNumbers, DataTagged, DataEmpty}

RichText(text) ==
  [type |-> "rich_text",
   val |-> <<List(IF text = <<>> THEN <<>> ELSE <<Run(<<text>>, <<text>>)>>)>>]
NoSelect == [type |-> "select", val |-> <<>>]
NoNumber == [type |-> "number", val |-> <<>>]

\* Scenarios A, B and D of the specification: names that differ in case,
\* scores 10, 2, none, 2 and 0.5, tags x, y, none, absent and x
DataScores ==
  [pages |-> <<Page("p1", <<Field(NameField, Title(<<"a">>)),
                            Field(ScoreField, Number(100)),
                            Field(TagField, Select(<<<<"x">>>>))>>, <<"1">>, <<"5">>),
               Page("p2", <<Field(NameField, Title(<<"B">>)),
                            Field(ScoreField, Number(20)),
                            Field(TagField, Select(<<<<"y">>>>))>>, <<"2">>, <<"4">>),
               Page("p3", <<Field(NameField, Title(<<"b">>)),
                            Field(ScoreField, NoNumber),
                            Field(TagField, NoSelect)>>, <<"3">>, <<"3">>),
               Page("p4", <<Field(NameField, Title(<<"A">>)),
                            Field(ScoreField, Number(20))>>, <<"4">>, <<"2">>),
               Page("p5", <<Field(NameField, Title(<<"x">>)),
                            Field(ScoreField, Number(5)),
                            Field(TagField, Select(<<<<"x">>>>))>>, <<"5">>, <<"1">>)>>,
   schema |-> <<Field(NameField, SchemaProp("title", <<>>)),
                Field(ScoreField, SchemaProp("number", <<>>)),
                Field(TagField,
                      SchemaProp("select", <<[name |-> <<"x">>, color |-> <<"red">>],
                                             [name |-> <<"y">>, color |-> <<>>]>>))>>]

\* a field whose name starts with a colon
ColonField == <<":", "x">>

DataColon ==
  [pages |-> <<Page("p1", <<Field(ColonField, RichText(<<"a">>))>>, <<"1">>, <<"2">>),
               Page("p2", <<Field(ColonField, RichText(<<>>))>>, <<"2">>, <<"1">>),
               Page("p3", <<Field(ColonField, RichText(<<EMDASH>>))>>, <<"3">>, <<"3">>)>>,
   schema |-> <<Field(ColonField, SchemaProp("rich_text", <<>>))>>]

ViewDatasets == {DataScores, DataColon}

LongBody == [i \in 1..(ApiBodyLimit + 1) |-> IF i > ApiBodyLimit THEN "x" ELSE "a"]
NotFoundBody == <<"c", "o", "u", "l", "d", " ", "n", "o", "t", " ", "f", "i", "n", "d">>
FetchFailed == <<"F", "a", "i", "l", "e", "d">>

HttpFailure(status, text) == [kind |-> "http", status |-> status, text |-> text]
Thrown == [kind |-> "throw", status |-> 0, text |-> FetchFailed]
Ok200 == [kind |-> "ok", status |-> 200, text |-> <<>>]

QueryFailures == {HttpFailure(500, LongBody), HttpFailure(404, <<"x">>)}
UpdateFailures == {HttpFailure(400, LongBody)}

----------------------------------------------------------------------------
VARIABLES
  proxyUrl, databaseId,          \* the connection settings
  columns, rows, lastSynced,     \* the local mirror
  error,                         \* the one user-visible error message
  editingCell,                   \* the slot of the edit in progress: <<>> or <<cell>>
  sortBy, groupBy, filterColumn, filterOp, filterValue,   \* the view parameters
  syncs,                         \* the fetchFromNotion calls awaiting the gateway
  saves,                         \* the saveCellEdit calls awaiting the gateway
  remote,                        \* the remote collection: [pages, schema]
  sent,                          \* the operations sent to the gateway so far
  probe                          \* the value a codec function is applied to

config == <<proxyUrl, databaseId>>
mirror == <<columns, rows, lastSynced>>
view == <<sortBy, groupBy, filterColumn, filterOp, filterValue>>
widget == <<proxyUrl, databaseId, columns, rows, lastSynced, error, editingCell,
            sortBy, groupBy, filterColumn, filterOp, filterValue, syncs, saves, remote,
            sent>>
vars == <<widget, probe>>

\* the messages of setError
Message(kind, status, text) == [kind |-> kind, status |-> status, text |-> text]
NoError == Message("", 0, <<>>)
ConfigError == Message("Enter proxy URL and database ID above, then Sync.", 0, <<>>)
NotFoundError == Message("Database not found. Share it with your integration", 0, <<>>)
\* a message that carries the whole body of the response
ApiErrorWhole(status, t) == Message("Notion API:", status, t)
ApiError(status, t) == Message("Notion API:", status, Slice0(t, ApiBodyLimit))
UpdateError(status, t) == Message("Update failed:", status, Slice0(t, UpdateBodyLimit))
ExceptionError(message) == Message("exception", 0, message)

WidgetInit ==
  /\ proxyUrl = <<>> /\ databaseId = <<>>
  /\ columns = <<>> /\ rows = <<>> /\ lastSynced = 0
  /\ error = NoError
  /\ editingCell = <<>>
  /\ sortBy = <<>> /\ groupBy = <<>>
  /\ filterColumn = <<>> /\ filterOp = "contains" /\ filterValue = <<>>

\* no codec function under test
NoProbe ==
  [stage |-> "none", type |-> "", text |-> <<>>, fields |-> <<>>, cells |-> <<>>,
   columns |-> <<>>, schema |-> <<>>, merged |-> <<>>, shown |-> <<>>]

Init ==
  /\ WidgetInit
  /\ syncs = <<>> /\ saves = <<>>
  /\ remote \in Datasets
  /\ sent = 0
  /\ probe = NoProbe

----------------------------------------------------------------------------
(***************************************************************************)
(* The view deriver: getFilteredRows, getSortedRows, getGroupedRows.       *)
(***************************************************************************)
\* The characters of the model in UTF-16 code unit order (the order of <
\* on strings), and in the order of localeCompare (punctuation, digits,
\* then letters with the lower case letter first).
CodeOrder ==
  <<" ", "+", ",", "-", ".", "/", "0", "1", "2", "3", "4", "5", "6", "7", "8", "9", ":",
    "A", "B", "F", "N", "S", "T", "X", "Y",
    "a", "b", "c", "d", "e", "f", "i", "l", "n", "o", "r", "s", "t", "u", "x", "y",
    EMDASH, CHECK>>
LocaleOrder ==
  <<" ", "-", EMDASH, ",", ":", ".", "/", "+", CHECK,
    "0", "1", "2", "3", "4", "5", "6", "7", "8", "9",
    "a", "A", "b", "B", "c", "d", "e", "f", "F", "i", "l", "n", "N", "o", "r", "s", "S",
    "t", "T", "u", "x", "X", "y", "Y">>

Rank(order, c) == CHOOSE i \in 1..Len(order) : order[i] = c

\* -1, 0 or 1: a against b, character by character in the given order
RECURSIVE CompareBy(_, _, _)
CompareBy(order, a, b) ==
  IF a = <<>> /\ b = <<>> THEN 0
  ELSE IF a = <<>> THEN -1
  ELSE IF b = <<>> THEN 1
  ELSE IF Rank(order, Head(a)) < Rank(order, Head(b)) THEN -1
  ELSE IF Rank(order, Head(a)) > Rank(order, Head(b)) THEN 1
  ELSE CompareBy(order, Tail(a), Tail(b))

\* a < b on strings
StrLess(a, b) == CompareBy(CodeOrder, a, b) < 0

\* a.localeCompare(b): letters first compared without their case
localeCompare(a, b) ==
  LET primary == CompareBy(LocaleOrder, ToLowerCase(a), ToLowerCase(b))
  IN IF primary # 0 THEN primary ELSE CompareBy(LocaleOrder, a, b)

HasColumn(cols, key) == \E i \in 1..Len(cols) : cols[i].propertyName = key

\* columns.find((c) => c.propertyName === key), as an option
FindColumn(cols, key) ==
  IF HasColumn(cols, key)
  THEN <<cols[CHOOSE i \in 1..Len(cols) :
                 /\ cols[i].propertyName = key
                 /\ \A j \in 1..(i - 1) : cols[j].propertyName # key]>>
  ELSE <<>>

\* row.cells[key] ?? dflt
CellOr(row, key, dflt) == IF key \in DOMAIN row.cells THEN row.cells[key] ELSE dflt

\* a filter that compares the cell as it is written
FilterKeepsCase(row, key, op, val) ==
  LET cellVal == CellOr(row, key, <<>>)
      isEmpty == cellVal = <<>> \/ cellVal = <<EMDASH>>
  IN CASE op = "contains" -> Includes(cellVal, val)
       [] op = "equals" -> cellVal = val
       [] op = "is_empty" -> isEmpty
       [] op = "is_not_empty" -> ~isEmpty
       [] OTHER -> TRUE

\* a filter for which the placeholder is not empty
FilterKeepsMarker(row, key, op, val) ==
  LET cellVal == ToLowerCase(CellOr(row, key, <<>>))
  IN CASE op = "contains" -> Includes(cellVal, val)
       [] op = "equals" -> cellVal = val
       [] op = "is_empty" -> cellVal = <<>>
       [] op = "is_not_empty" -> cellVal # <<>>
       [] OTHER -> TRUE

FilterKeeps(row, key, op, val) ==
  LET cellVal == ToLowerCase(CellOr(row, key, <<>>))
      isEmpty == cellVal = <<>> \/ cellVal = <<EMDASH>>
  IN CASE op = "contains" -> Includes(cellVal, val)
       [] op = "equals" -> cellVal = val
       [] op = "is_empty" -> isEmpty
       [] op = "is_not_empty" -> ~isEmpty
       [] OTHER -> TRUE

\* a filter that does not look for the column
FilteredUnchecked(rs, cols, key, op, value) ==
  IF key = <<>> THEN rs
  ELSE LET val == ToLowerCase(Trim(value))
           needsValue == op # "is_empty" /\ op # "is_not_empty"
       IN IF needsValue /\ val = <<>> THEN rs
          ELSE SelectSeq(rs, LAMBDA row : FilterKeeps(row, key, op, val))

Filtered(rs, cols, key, op, value) ==
  IF key = <<>> \/ ~HasColumn(cols, key) THEN rs
  ELSE LET val == ToLowerCase(Trim(value))
           needsValue == op # "is_empty" /\ op # "is_not_empty"
       IN IF needsValue /\ val = <<>> THEN rs
          ELSE SelectSeq(rs, LAMBDA row : FilterKeeps(row, key, op, val))

getFilteredRows == Filtered(rows, columns, filterColumn, filterOp, filterValue)

CreatedTime == <<"c", "r", "e", "a", "t", "e", "d", "_", "t", "i", "m", "e">>
LastEditedTime ==
  <<"l", "a", "s", "t", "_", "e", "d", "i", "t", "e", "d", "_", "t", "i", "m", "e">>

\* a sort value that is the text of the cell for every column
getCellSortValueLexical(row, cols, key) ==
  IF key = CreatedTime
  THEN <<"string", IF row.created_time # <<>> THEN row.created_time[1] ELSE <<>>>>
  ELSE IF key = LastEditedTime
  THEN <<"string", IF row.last_edited_time # <<>> THEN row.last_edited_time[1] ELSE <<>>>>
  ELSE <<"string", ToLowerCase(CellOr(row, key, <<>>))>>

\* getCellSortValue: <<"number", n>> or <<"string", s>>
getCellSortValue(row, cols, key) ==
  IF key = CreatedTime
  THEN <<"string", IF row.created_time # <<>> THEN row.created_time[1] ELSE <<>>>>
  ELSE IF key = LastEditedTime
  THEN <<"string", IF row.last_edited_time # <<>> THEN row.last_edited_time[1] ELSE <<>>>>
  ELSE LET v == CellOr(row, key, <<>>)
           col == FindColumn(cols, key)
       IN IF col # <<>> /\ col[1].type = "number"
          THEN LET n == ParseFloat(v) IN <<"number", IF n = <<>> THEN 0 ELSE n[1]>>
          ELSE <<"string", ToLowerCase(v)>>

ValueLess(va, vb) == IF va[1] = "number" THEN va[2] < vb[2] ELSE StrLess(va[2], vb[2])

\* the comparator of getSortedRows
RowCompare(a, b, cols, key, asc) ==
  LET va == getCellSortValue(a, cols, key)
      vb == getCellSortValue(b, cols, key)
      cmp == IF ValueLess(va, vb) THEN -1 ELSE IF ValueLess(vb, va) THEN 1 ELSE 0
  IN IF asc THEN cmp ELSE 0 - cmp

\* seq with x put in at place at + 1
InsertAfter(seq, at, x) == SubSeq(seq, 1, at) \o <<x>> \o SubSeq(seq, at + 1, Len(seq))

\* the greatest member of a set of places, 0 when there is none
LastOf(places) == IF places = {} THEN 0 ELSE CHOOSE i \in places : \A j \in places : j <= i

\* a sort that puts x before the elements it ties with
InsertRowBefore(done, x, cols, key, asc) ==
  InsertAfter(done,
              LastOf({i \in 1..Len(done) : RowCompare(done[i], x, cols, key, asc) < 0}),
              x)

\* Array.prototype.sort, which is stable: x goes after the last element of
\* the sorted prefix that does not compare greater than it
InsertRow(done, x, cols, key, asc) ==
  InsertAfter(done,
              LastOf({i \in 1..Len(done) : RowCompare(done[i], x, cols, key, asc) <= 0}),
              x)

RECURSIVE SortRows(_, _, _, _)
SortRows(rs, cols, key, asc) ==
  IF rs = <<>> THEN <<>>
  ELSE InsertRow(SortRows(SubSeq(rs, 1, Len(rs) - 1), cols, key, asc),
                 rs[Len(rs)], cols, key, asc)

Sorted(rs, cols, by, fKey, fOp, fValue) ==
  LET filtered == Filtered(rs, cols, fKey, fOp, fValue)
      parts == SplitColon(by)
      key == parts[1]
      asc == ~(Len(parts) > 1 /\ parts[2] = <<"d", "e", "s", "c">>)
  IN IF by = <<>> THEN filtered
     ELSE IF key = <<>> THEN rs
     ELSE SortRows(filtered, cols, key, asc)

getSortedRows == Sorted(rows, columns, sortBy, filterColumn, filterOp, filterValue)

\* the comparator of the bucket keys
KeyCompare(a, b, numeric) ==
  LET na == ParseFloat(a)
      nb == ParseFloat(b)
  IN IF numeric /\ na # <<>> /\ nb # <<>> THEN na[1] - nb[1] ELSE localeCompare(a, b)

InsertKey(done, x, numeric) ==
  InsertAfter(done, LastOf({i \in 1..Len(done) : KeyCompare(done[i], x, numeric) <= 0}), x)

RECURSIVE SortKeys(_, _)
SortKeys(keys, numeric) ==
  IF keys = <<>> THEN <<>>
  ELSE InsertKey(SortKeys(SubSeq(keys, 1, Len(keys) - 1), numeric), keys[Len(keys)], numeric)

\* if (!map.has(val)) map.set(val, [])
AddKey(before, val) ==
  IF \E i \in 1..Len(before) : before[i] = val THEN before ELSE Append(before, val)

\* the keys of the Map, in insertion order
RECURSIVE BucketKeys(_, _)
BucketKeys(rs, by) ==
  IF rs = <<>> THEN <<>>
  ELSE AddKey(BucketKeys(SubSeq(rs, 1, Len(rs) - 1), by),
              CellOr(rs[Len(rs)], by, <<EMDASH>>))

\* a grouping that leaves out the rows that have no cell to group by
GroupedPresent(sorted, cols, by) ==
  IF by = <<>> \/ ~HasColumn(cols, by) THEN <<[groupValue |-> <<>>, rows |-> sorted]>>
  ELSE LET col == FindColumn(cols, by)
           present == SelectSeq(sorted, LAMBDA row : by \in DOMAIN row.cells)
           sortedKeys == SortKeys(BucketKeys(present, by), col[1].type = "number")
       IN [k \in 1..Len(sortedKeys) |->
             [groupValue |-> sortedKeys[k],
              rows |-> SelectSeq(present,
                         LAMBDA row : CellOr(row, by, <<EMDASH>>) = sortedKeys[k])]]

Grouped(sorted, cols, by) ==
  IF by = <<>> \/ ~HasColumn(cols, by) THEN <<[groupValue |-> <<>>, rows |-> sorted]>>
  ELSE LET col == FindColumn(cols, by)
           sortedKeys == SortKeys(BucketKeys(sorted, by), col[1].type = "number")
       IN [k \in 1..Len(sortedKeys) |->
             [groupValue |-> sortedKeys[k],
              rows |-> SelectSeq(sorted,
                         LAMBDA row : CellOr(row, by, <<EMDASH>>) = sortedKeys[k])]]

getGroupedRows == Grouped(getSortedRows, columns, groupBy)

\* Arrays as objects: stored tells whether the array is the one the rows
\* state holds, so that a write through it is a write to the state.
Array(stored, items) == [stored |-> stored, items |-> items]

\* what getFilteredRows returns: rows itself on its early returns, the new
\* array of rows.filter otherwise
FilteredArray(rs, cols, key, op, value) ==
  IF \/ key = <<>> \/ ~HasColumn(cols, key)
     \/ op \notin {"is_empty", "is_not_empty"} /\ ToLowerCase(Trim(value)) = <<>>
  THEN Array(TRUE, rs)
  ELSE Array(FALSE, Filtered(rs, cols, key, op, value))

\* a sort that takes the filtered array itself as its receiver
SpreadNone(array) == array

\* [...filtered]
Spread(array) == Array(FALSE, array.items)

\* the rows state once getSortedRows has run: Array.prototype.sort orders
\* its receiver in place
RowsAfterSort(rs, cols, by, fKey, fOp, fValue) ==
  LET parts == SplitColon(by)
      asc == ~(Len(parts) > 1 /\ parts[2] = <<"d", "e", "s", "c">>)
      receiver == Spread(FilteredArray(rs, cols, fKey, fOp, fValue))
  IN IF by # <<>> /\ parts[1] # <<>> /\ receiver.stored
     THEN SortRows(receiver.items, cols, parts[1], asc)
     ELSE rs

\* the rows the table shows, group after group
RECURSIVE GroupRows(_)
GroupRows(groups) ==
  IF groups = <<>> THEN <<>> ELSE Head(groups).rows \o GroupRows(Tail(groups))

----------------------------------------------------------------------------
(***************************************************************************)
(* The widget's handlers.                                                  *)
(***************************************************************************)
RemoveAt(seq, i) == SubSeq(seq, 1, i - 1) \o SubSeq(seq, i + 1, Len(seq))

CfgValues == {<<" ">>, <<"u">>}
NewValues == {<<"7", ".", "0">>, <<"x">>}

\* hasData, and the settings screen shown for !hasData && !error
hasData == Len(columns) > 0
SettingsShown == ~hasData /\ error = NoError

\* a check of the settings that does not trim them
ConfigMissingUntrimmed == proxyUrl = <<>> \/ databaseId = <<>>

\* !proxyUrl.trim() || !databaseId.trim()
ConfigMissing == Trim(proxyUrl) = <<>> \/ Trim(databaseId) = <<>>

\* buildSorts
buildSorts(by) ==
  LET parts == SplitColon(by)
      key == parts[1]
      direction == IF Len(parts) > 1 /\ parts[2] = <<"d", "e", "s", "c">>
                   THEN "descending" ELSE "ascending"
  IN IF by = <<>> THEN <<>>
     ELSE IF key \in {CreatedTime, LastEditedTime}
     THEN <<[by |-> "timestamp", key |-> key, direction |-> direction]>>
     ELSE IF key # <<>>
     THEN <<[by |-> "property", key |-> key, direction |-> direction]>>
     ELSE <<>>

\* the Input of the proxy URL, onTextEditEnd
SetProxyUrl(v) ==
  /\ SettingsShown
  /\ proxyUrl' = v
  /\ UNCHANGED <<databaseId, mirror, error, editingCell, view, syncs, saves, remote, sent, probe>>

\* the Input of the database id, onTextEditEnd
SetDatabaseId(v) ==
  /\ SettingsShown
  /\ databaseId' = v
  /\ UNCHANGED <<proxyUrl, mirror, error, editingCell, view, syncs, saves, remote, sent, probe>>

\* the effect that loads the settings saved in clientStorage
SavedConfig == [proxyUrl |-> <<"u">>, databaseId |-> <<"u">>]

LoadSavedConfig ==
  /\ ~(Trim(proxyUrl) # <<>> /\ Trim(databaseId) # <<>>)
  /\ proxyUrl' = SavedConfig.proxyUrl
  /\ databaseId' = SavedConfig.databaseId
  /\ UNCHANGED <<mirror, error, editingCell, view, syncs, saves, remote, sent, probe>>

\* a full sync that leaves the message of the last failure in place
FetchFromNotionKeepError ==
  \/ /\ ConfigMissing
     /\ error' = ConfigError
     /\ UNCHANGED <<config, mirror, editingCell, view, syncs, saves, remote, sent, probe>>
  \/ /\ ~ConfigMissing
     /\ syncs = <<>>
     /\ sent < MaxSent
     /\ sent' = sent + 1
     /\ syncs' = Append(syncs, [sorts |-> buildSorts(sortBy),
                                schemaRes |-> <<>>, queryRes |-> <<>>])
     /\ UNCHANGED <<config, mirror, error, editingCell, view, saves, remote, probe>>

\* fetchFromNotion, to its await: the two requests are out
FetchFromNotion ==
  \/ /\ ConfigMissing
     /\ error' = ConfigError
     /\ UNCHANGED <<config, mirror, editingCell, view, syncs, saves, remote, sent, probe>>
  \/ /\ ~ConfigMissing
     /\ syncs = <<>>
     /\ sent < MaxSent
     /\ sent' = sent + 1
     /\ error' = NoError
     /\ syncs' = Append(syncs, [sorts |-> buildSorts(sortBy),
                                schemaRes |-> <<>>, queryRes |-> <<>>])
     /\ UNCHANGED <<config, mirror, editingCell, view, saves, remote, probe>>

\* the message of a query that is not ok
QueryErrorMessage(status, t) ==
  IF \/ status = 404
     \/ Includes(t, NotFoundBody)
     \/ Includes(t, <<"l", "o", "c", "a", "t", "e", " ",
                      "d", "a", "t", "a", "b", "a", "s", "e">>)
  THEN NotFoundError
  ELSE ApiError(status, t)

\* results.map((page) => ({pageId, cells, created_time, last_edited_time}))
ParsedRows(results) ==
  [i \in 1..Len(results) |->
     [pageId |-> results[i].id,
      cells |-> parseNotionProperties(results[i].properties),
      created_time |-> results[i].created_time,
      last_edited_time |-> results[i].last_edited_time]]

\* a column list that keeps, after the new columns, the previous columns the
\* new result does not have
KeptColumns(results, schema) ==
  LET fresh == mergeSchemaOptions(parseNotionColumns(results), schema)
  IN fresh \o SelectSeq(columns, LAMBDA c : ~HasColumn(fresh, c.propertyName))

\* mergeSchemaOptions(parseNotionColumns(results), schema)
ParsedColumns(results, schema) == mergeSchemaOptions(parseNotionColumns(results), schema)

Rejected(t) ==
  \/ t.schemaRes # <<>> /\ t.schemaRes[1].kind = "throw"
  \/ t.queryRes # <<>> /\ t.queryRes[1].kind = "throw"

Answered(t) == t.schemaRes # <<>> /\ t.queryRes # <<>>

\* a sync that gives up when either response is not ok
AnyFailed(schemaRes, queryRes) == queryRes.kind # "ok" \/ schemaRes.kind # "ok"

\* !queryRes.ok, once both responses are in
QueryFailed(schemaRes, queryRes) == queryRes.kind # "ok"

\* schemaRes.ok ? await schemaRes.json() : null
SchemaOf(schemaRes) ==
  IF schemaRes.kind = "ok" THEN <<[properties |-> <<schemaRes.body>>]>> ELSE <<>>

\* fetchFromNotion, from its await on: Promise.all has settled
FetchSettled(i) ==
  LET t == syncs[i]
  IN /\ syncs' = RemoveAt(syncs, i)
     /\ \/ /\ Rejected(t)
           /\ error' = ExceptionError(FetchFailed)
           /\ UNCHANGED mirror
        \/ /\ ~Rejected(t) /\ Answered(t)
           /\ QueryFailed(t.schemaRes[1], t.queryRes[1])
           /\ error' = QueryErrorMessage(t.queryRes[1].status, t.queryRes[1].text)
           /\ UNCHANGED mirror
        \/ /\ ~Rejected(t) /\ Answered(t)
           /\ ~QueryFailed(t.schemaRes[1], t.queryRes[1])
           /\ LET schema == SchemaOf(t.schemaRes[1])
                  results == t.queryRes[1].body
              IN IF \E k \in 1..Len(results) : ParseThrows(results[k].properties)
                 THEN /\ error' = ExceptionError(TypeError)
                      /\ UNCHANGED mirror
                 ELSE /\ columns' = ParsedColumns(results, schema)
                      /\ rows' = ParsedRows(results)
                      /\ lastSynced' = lastSynced + 1
                      /\ UNCHANGED error
     /\ UNCHANGED <<config, editingCell, view, saves, remote, sent, probe>>

\* isEditing of a rendered cell
IsEditing(slot, row, col) ==
  slot # <<>> /\ slot[1].pageId = row.pageId /\ slot[1].property = col.propertyName

\* canEdit of a rendered cell
CanEdit(slot, row, col) == ~isReadOnlyType(col.type) /\ ~IsEditing(slot, row, col)

\* an editCell that queues the new edit behind the edit in progress
editCellQueue(slot, pageId, propertyName, columnType, currentValue) ==
  slot \o <<[pageId |-> pageId, property |-> propertyName,
             columnType |-> columnType, value |-> currentValue]>>

\* editCell: the new content of the slot
editCell(slot, pageId, propertyName, columnType, currentValue) ==
  <<[pageId |-> pageId, property |-> propertyName,
     columnType |-> columnType, value |-> currentValue]>>

DisplayedRows == GroupRows(getGroupedRows)

\* onClick of the cell of a displayed row under a column
ClickCell(row, col) ==
  /\ editingCell' =
       IF CanEdit(editingCell, row, col)
       THEN editCell(editingCell, row.pageId, col.propertyName, col.type,
                     CellOr(row, col.propertyName, <<>>))
       ELSE editingCell
  /\ UNCHANGED <<config, mirror, error, view, syncs, saves, remote, sent, probe>>

\* the Input and the option pills are rendered in the cell that isEditing
InputRendered ==
  \E r \in 1..Len(DisplayedRows), c \in 1..Len(columns) :
    IsEditing(editingCell, DisplayedRows[r], columns[c])

\* cell.columnType ?? (col?.type ?? "rich_text"); editCell always carries a type
EffectiveType(cell, cols) == cell.columnType

\* saveCellEdit, to its await: the PATCH is out
SaveCellEdit(newValue) ==
  \/ /\ editingCell = <<>>
     /\ UNCHANGED vars
  \/ /\ editingCell # <<>>
     /\ InputRendered
     /\ saves = <<>>
     /\ sent < MaxSent
     /\ sent' = sent + 1
     /\ editingCell' = <<>>
     /\ LET cell == editingCell[1]
            type == EffectiveType(cell, columns)
        IN saves' = Append(saves,
                      [pageId |-> cell.pageId, property |-> cell.property,
                       type |-> type, value |-> newValue,
                       payload |-> buildNotionPropertyUpdate(cell.property, type, newValue),
                       res |-> <<>>])
     /\ UNCHANGED <<config, mirror, error, view, syncs, remote, probe>>

\* a patch that writes the cell in every row
PatchAllRows(prev, pageId, property, newValue) ==
  [i \in 1..Len(prev) |->
     [prev[i] EXCEPT !.cells =
        [k \in DOMAIN prev[i].cells \cup {property} |->
           IF k = property THEN newValue ELSE prev[i].cells[k]]]]

\* prev.map((row) => row.pageId === cell.pageId ? {...row, cells: {...}} : row)
PatchRows(prev, pageId, property, newValue) ==
  [i \in 1..Len(prev) |->
     IF prev[i].pageId = pageId
     THEN [prev[i] EXCEPT !.cells =
             [k \in DOMAIN prev[i].cells \cup {property} |->
                IF k = property THEN newValue ELSE prev[i].cells[k]]]
     ELSE prev[i]]

\* rows patched whatever the answer to the PATCH
OptimisticRows(prev, t) == PatchRows(prev, t.pageId, t.property, t.value)

\* the rows after the PATCH has been answered: setRows runs only past the
\* throw of !res.ok
SettledRows(prev, t) ==
  IF t.res[1].kind = "ok" THEN PatchRows(prev, t.pageId, t.property, t.value) ELSE prev

\* saveCellEdit, from its await on
SaveSettled(j) ==
  LET t == saves[j]
  IN /\ t.res # <<>>
     /\ saves' = RemoveAt(saves, j)
     /\ rows' = SettledRows(rows, t)
     /\ \/ /\ t.res[1].kind = "throw"
           /\ error' = ExceptionError(FetchFailed)
        \/ /\ t.res[1].kind = "http"
           /\ error' = UpdateError(t.res[1].status, t.res[1].text)
        \/ /\ t.res[1].kind = "ok"
           /\ error' = NoError
     /\ UNCHANGED <<config, columns, lastSynced, editingCell, view, syncs, remote, sent, probe>>

----------------------------------------------------------------------------
(***************************************************************************)
(* The gateway: getSchema, queryRecords, updatePage.                       *)
(***************************************************************************)
Response(kind, status, text, body) ==
  [kind |-> kind, status |-> status, text |-> text, body |-> body]

Failure(f) == Response(f.kind, f.status, f.text, <<>>)

GetSchema(i) ==
  /\ syncs[i].schemaRes = <<>>
  /\ \E res \in {Response("ok", 200, <<>>, remote.schema),
                 Failure(HttpFailure(500, <<"x">>)), Failure(Thrown)} :
       syncs' = [syncs EXCEPT ![i].schemaRes = <<res>>]
  /\ UNCHANGED <<config, mirror, error, editingCell, view, saves, remote, sent, probe>>

QueryRecords(i) ==
  /\ syncs[i].queryRes = <<>>
  /\ \E res \in {Response("ok", 200, <<>>, remote.pages), Failure(Thrown)}
                  \cup {Failure(f) : f \in QueryFailures} :
       syncs' = [syncs EXCEPT ![i].queryRes = <<res>>]
  /\ UNCHANGED <<config, mirror, error, editingCell, view, saves, remote, sent, probe>>

\* the remote takes a value for a field a page has, of the field's type
Accepts(pages, t) ==
  \E p \in 1..Len(pages) :
    /\ pages[p].id = t.pageId
    /\ t.property \in Names(pages[p].properties)
    /\ Lookup(pages[p].properties, t.property).type = t.payload[1].value.type

Stored(pages, t) ==
  [p \in 1..Len(pages) |->
     IF pages[p].id = t.pageId
     THEN [pages[p] EXCEPT !.properties =
             [k \in 1..Len(pages[p].properties) |->
                IF pages[p].properties[k].name = t.property
                THEN t.payload[1]
                ELSE pages[p].properties[k]]]
     ELSE pages[p]]

UpdatePage(j) ==
  /\ saves[j].res = <<>>
  /\ \/ /\ Accepts(remote.pages, saves[j])
        /\ remote' = [remote EXCEPT !.pages = Stored(remote.pages, saves[j])]
        /\ saves' = [saves EXCEPT ![j].res = <<Ok200>>]
     \/ /\ ~Accepts(remote.pages, saves[j])
        /\ saves' = [saves EXCEPT ![j].res = <<HttpFailure(400, LongBody)>>]
        /\ UNCHANGED remote
     \/ /\ \E f \in UpdateFailures \cup {Thrown} :
             saves' = [saves EXCEPT ![j].res = <<f>>]
        /\ UNCHANGED remote
  /\ UNCHANGED <<config, mirror, error, editingCell, view, syncs, sent, probe>>

\* the collection is edited by its other users
RemoteChange(d) ==
  /\ remote # d
  /\ syncs = <<>> /\ saves = <<>>
  /\ remote' = d
  /\ UNCHANGED <<config, mirror, error, editingCell, view, syncs, saves, sent, probe>>

----------------------------------------------------------------------------
Next ==
  \/ \E v \in CfgValues : SetProxyUrl(v) \/ SetDatabaseId(v)
  \/ LoadSavedConfig
  \/ FetchFromNotion
  \/ \E i \in 1..Len(syncs) : GetSchema(i) \/ QueryRecords(i) \/ FetchSettled(i)
  \/ \E r \in 1..Len(DisplayedRows), c \in 1..Len(columns) :
       ClickCell(DisplayedRows[r], columns[c])
  \/ \E v \in NewValues : SaveCellEdit(v)
  \/ \E j \in 1..Len(saves) : UpdatePage(j) \/ SaveSettled(j)
  \/ \E d \in Datasets : RemoteChange(d)

Spec == Init /\ [][Next]_vars

----------------------------------------------------------------------------
(***************************************************************************)
(* The view parameters: the property menu and the filter value Input, over *)
(* a table that a full sync has installed.                                 *)
(***************************************************************************)
FilterValueLimit == 50

Asc == <<":", "a", "s", "c">>
Desc == <<":", "d", "e", "s", "c">>

\* the options of the menus, as sets
sortOptions ==
  {<<>>}
    \cup {columns[c].propertyName \o dir : c \in 1..Len(columns), dir \in {Asc, Desc}}
    \cup {key \o dir : key \in {CreatedTime, LastEditedTime}, dir \in {Asc, Desc}}

groupOptions == {<<>>} \cup {columns[c].propertyName : c \in 1..Len(columns)}

filterColumnOptions == {<<>>} \cup {columns[c].propertyName : c \in 1..Len(columns)}

filterOpOptions == {"contains", "equals", "is_empty", "is_not_empty"}

needsFilterValue == filterColumn # <<>> /\ filterOp \in {"contains", "equals"}

\* Array.from(new Set(...)): the distinct values in first-occurrence order
RECURSIVE Distinct(_)
Distinct(vals) ==
  IF vals = <<>> THEN <<>>
  ELSE AddKey(Distinct(SubSeq(vals, 1, Len(vals) - 1)), vals[Len(vals)])

filterValueOptions ==
  IF ~needsFilterValue THEN {<<>>}
  ELSE LET trimmed == [i \in 1..Len(rows) |-> Trim(CellOr(rows[i], filterColumn, <<>>))]
           kept == SelectSeq(trimmed, LAMBDA v : v # <<>> /\ v # <<EMDASH>>)
           shown == Slice0(SortKeys(Distinct(kept), FALSE), FilterValueLimit)
       IN {<<>>} \cup {shown[i] : i \in 1..Len(shown)}

\* what the user types in the filter value Input
FilterTexts == {<<"X">>, <<" ", "a">>, <<" ">>, <<"9">>}

SetSortBy(option) ==
  /\ sortBy' = option
  /\ UNCHANGED <<config, mirror, error, editingCell, groupBy, filterColumn, filterOp,
                 filterValue, syncs, saves, remote, sent, probe>>

SetGroupBy(option) ==
  /\ groupBy' = option
  /\ UNCHANGED <<config, mirror, error, editingCell, sortBy, filterColumn, filterOp,
                 filterValue, syncs, saves, remote, sent, probe>>

SetFilterColumn(option) ==
  /\ filterColumn' = option
  /\ UNCHANGED <<config, mirror, error, editingCell, sortBy, groupBy, filterOp,
                 filterValue, syncs, saves, remote, sent, probe>>

SetFilterOp(option) ==
  /\ filterOp' = option
  /\ UNCHANGED <<config, mirror, error, editingCell, sortBy, groupBy, filterColumn,
                 filterValue, syncs, saves, remote, sent, probe>>

\* the filter value dropdown, and the Input shown under the same condition
SetFilterValue(value) ==
  /\ needsFilterValue
  /\ filterValue' = value
  /\ UNCHANGED <<config, mirror, error, editingCell, sortBy, groupBy, filterColumn,
                 filterOp, syncs, saves, remote, sent, probe>>

\* the widget after a full sync of a collection, with a group and a filter
\* column that may have been chosen under an earlier sync
ViewInit ==
  /\ remote \in ViewDatasets
  /\ proxyUrl = <<"u">> /\ databaseId = <<"u">>
  /\ columns = ParsedColumns(remote.pages, <<[properties |-> <<remote.schema>>]>>)
  /\ rows = ParsedRows(remote.pages)
  /\ lastSynced = 1
  /\ error = NoError
  /\ editingCell = <<>>
  /\ sortBy = <<>>
  /\ groupBy \in {<<>>} \cup UNION {Names(d.schema) : d \in ViewDatasets}
  /\ filterColumn \in {<<>>} \cup UNION {Names(d.schema) : d \in ViewDatasets}
  /\ filterOp = "contains" /\ filterValue = <<>>
  /\ syncs = <<>> /\ saves = <<>>
  /\ sent = 0
  /\ probe = NoProbe

\* one rendering of the table: getGroupedRows() for the body, which runs
\* getSortedRows and getFilteredRows, and getFilteredRows() for the footer
Render ==
  /\ rows' = RowsAfterSort(rows, columns, sortBy, filterColumn, filterOp, filterValue)
  /\ UNCHANGED <<config, columns, lastSynced, error, editingCell, view, syncs, saves, remote,
                 sent, probe>>

ViewNext ==
  \/ Render
  \/ \E option \in sortOptions : SetSortBy(option)
  \/ \E option \in groupOptions : SetGroupBy(option)
  \/ \E option \in filterColumnOptions : SetFilterColumn(option)
  \/ \E option \in filterOpOptions : SetFilterOp(option)
  \/ \E value \in filterValueOptions \cup FilterTexts : SetFilterValue(value)

ViewSpec == ViewInit /\ [][ViewNext]_vars

----------------------------------------------------------------------------
(***************************************************************************)
(* The codec on its own: buildNotionPropertyUpdate applied to a type and a *)
(* text, parseNotionProperties applied to a field map, which is either the *)
(* one just built or one the remote sent.                                  *)
(***************************************************************************)
KeyField == <<"k">>

EditTypes ==
  <<"title", "rich_text", "url", "date", "number", "checkbox", "select", "status",
    "multi_select", "formula">>

EditTexts ==
  <<<<>>, <<"a">>, <<" ", "7">>, <<"h", "e", "l", "l", "o">>, <<"1", ".", "5">>,
    <<"Y", "e", "s">>, <<"2", "0", "2", "4", "-", "0", "1", "-", "0", "1">>,
    <<"a", ",", " ", "b">>, <<" ">>, <<"1", "2", "a", "b", "c">>>>

Typed(type, val) == [type |-> type, val |-> val]

\* field values as the remote can send them: every type tag with its member
\* absent, well formed, and of the wrong shape
RawValues ==
  <<Typed("title", <<>>), Typed("rich_text", <<>>), Typed("number", <<>>),
    Typed("select", <<>>), Typed("multi_select", <<>>), Typed("checkbox", <<>>),
    Typed("date", <<>>), Typed("url", <<>>), Typed("status", <<>>),
    Typed("people", <<>>), Typed("formula", <<>>), Typed("rollup", <<>>),
    Typed("files", <<>>), Untyped, Null,
    Typed("title", <<List(<<Run(<<<<"a">>>>, <<>>), Run(<<>>, <<<<"b">>>>)>>)>>),
    Typed("title", <<List(<<Run(<<>>, <<>>)>>)>>),
    Typed("title", <<List(<<>>)>>),
    Typed("title", <<NotList>>),
    Typed("title", <<List(<<Run(<<<<"a">>>>, <<>>), Null>>)>>),
    Typed("rich_text", <<NotList>>),
    Typed("rich_text", <<List(<<Null>>)>>),
    Typed("number", <<15>>),
    Typed("select", <<<<"x">>>>),
    Typed("status", <<<<"x">>>>),
    Typed("checkbox", <<TRUE>>),
    Typed("date", <<<<"2">>>>),
    Typed("url", <<<<"u">>>>),
    Typed("multi_select", <<List(<<Named(<<<<"a">>>>), Named(<<<<"b">>>>)>>)>>),
    Typed("multi_select", <<List(<<Named(<<>>)>>)>>),
    Typed("multi_select", <<NotList>>),
    Typed("multi_select", <<List(<<Named(<<<<"a">>>>), Null>>)>>),
    Typed("people", <<List(<<Named(<<<<"a">>>>), Named(<<>>), Named(<<<<"b">>>>)>>)>>),
    Typed("people", <<NotList>>),
    Typed("people", <<List(<<Null>>)>>),
    Typed("formula", <<[string |-> <<<<"s">>>>, number |-> <<>>, boolean |-> <<>>]>>),
    Typed("formula", <<[string |-> <<>>, number |-> <<25>>, boolean |-> <<>>]>>),
    Typed("formula", <<[string |-> <<>>, number |-> <<>>, boolean |-> <<FALSE>>]>>),
    Typed("formula", <<[string |-> <<>>, number |-> <<>>, boolean |-> <<>>]>>),
    Typed("rollup", <<[number |-> <<30>>, array |-> <<>>]>>),
    Typed("rollup", <<[number |-> <<>>, array |-> <<2>>]>>),
    Typed("rollup", <<[number |-> <<>>, array |-> <<>>]>>)>>

TextProbe(type, text) == [NoProbe EXCEPT !.stage = "text", !.type = type, !.text = text]

\* a record with a well formed title and the raw value under KeyField
RawProbe(value) ==
  [NoProbe EXCEPT !.stage = "fields", !.type = "raw",
                  !.fields = <<Field(NameField, Title(<<"a">>)), Field(KeyField, value)>>]

StatusField == <<"s", "t">>

Column(name, type) == [name |-> name, propertyName |-> name, type |-> type, options |-> <<>>]

\* the columns parseNotionColumns hands to mergeSchemaOptions
MergeColumns ==
  <<<<Column(NameField, "title"), Column(TagField, "select"), Column(StatusField, "status")>>,
    <<Column(TagField, "status"), Column(StatusField, "select")>>,
    <<Column(StatusField, "status")>>,
    <<>>>>

SchemaStatus(statusOptions) ==
  [type |-> "status", select |-> <<>>, status |-> <<[options |-> <<statusOptions>>]>>]

Option(name, color) == [name |-> name, color |-> color]

\* the answers of the schema request: none, one without properties, and
\* properties with option lists that are full, empty or absent
MergeSchemas ==
  <<<<>>,
    <<[properties |-> <<>>]>>,
    <<[properties |->
         <<<<Field(NameField, SchemaProp("title", <<>>)),
             Field(TagField, SchemaProp("select", <<Option(<<"x">>, <<"red">>),
                                                    Option(<<"y">>, <<>>)>>)),
             Field(StatusField, SchemaStatus(<<Option(<<"d">>, <<"green">>),
                                               Option(<<"e">>, <<>>)>>))>>>>]>>,
    <<[properties |->
         <<<<Field(TagField, SchemaProp("select", <<>>)),
             Field(StatusField, [type |-> "status", select |-> <<>>, status |-> <<>>])>>>>]>>,
    <<[properties |->
         <<<<Field(StatusField, SchemaStatus(<<Option(<<"d">>, <<>>)>>))>>>>]>>,
    <<[properties |->
         <<<<Field(TagField, SchemaProp("select", <<Option(<<"x">>, <<>>)>>))>>>>]>>>>

\* a column type and a cell of that type as the decoder writes it
FormatInputs ==
  <<<<"checkbox", YesNo(TRUE)>>, <<"checkbox", YesNo(FALSE)>>, <<"checkbox", <<>>>>,
    <<"number", NumToStr(30)>>, <<"number", NumToStr(15)>>, <<"number", NumToStr(12345)>>,
    <<"number", NumToStr(-70)>>, <<"number", <<>>>>,
    <<"date", IsoDate>>, <<"date", <<>>>>,
    <<"title", <<"a">>>>, <<"title", <<>>>>, <<"rich_text", <<EMDASH>>>>,
    <<"rich_text", YesNo(TRUE)>>, <<"select", <<"x">>>>, <<"url", <<"u">>>>,
    <<"formula", NumToStr(12345)>>, <<"people", <<"a", ",", " ", "b">>>>>>

FormatProbe(type, value) == [NoProbe EXCEPT !.stage = "value", !.type = type, !.text = value]

MergeProbe(cols, schema) ==
  [NoProbe EXCEPT !.stage = "columns", !.type = "merge", !.columns = cols,
                  !.schema = schema]

CodecInit ==
  /\ WidgetInit
  /\ syncs = <<>> /\ saves = <<>>
  /\ remote = DataEmpty
  /\ sent = 0
  /\ \/ \E t \in 1..Len(EditTypes), s \in 1..Len(EditTexts) :
          probe = TextProbe(EditTypes[t], EditTexts[s])
     \/ \E r \in 1..Len(RawValues) : probe = RawProbe(RawValues[r])
     \/ \E c \in 1..Len(MergeColumns), m \in 1..Len(MergeSchemas) :
          probe = MergeProbe(MergeColumns[c], MergeSchemas[m])
     \/ \E f \in 1..Len(FormatInputs) : probe = FormatProbe(FormatInputs[f][1], FormatInputs[f][2])

\* buildNotionPropertyUpdate(KeyField, type, text)
BuildUpdate ==
  /\ probe.stage = "text"
  /\ probe' = [probe EXCEPT !.stage = "fields",
                            !.fields = buildNotionPropertyUpdate(KeyField, probe.type,
                                                                 probe.text)]
  /\ UNCHANGED widget

\* parseNotionProperties(fields): the cells, or a TypeError
ParseFields ==
  /\ probe.stage = "fields"
  /\ probe' = IF ParseThrows(probe.fields)
              THEN [probe EXCEPT !.stage = "thrown"]
              ELSE [probe EXCEPT !.stage = "cells",
                                 !.cells = <<parseNotionProperties(probe.fields)>>]
  /\ UNCHANGED widget

\* mergeSchemaOptions(columns, schema)
MergeOptions ==
  /\ probe.stage = "columns"
  /\ probe' = [probe EXCEPT !.stage = "merged",
                            !.merged = mergeSchemaOptions(probe.columns, probe.schema)]
  /\ UNCHANGED widget

\* formatCellForDisplay(type, value), and once more on what it returned
FormatCell ==
  /\ probe.stage = "value"
  /\ Len(probe.shown) < 2
  /\ probe' = [probe EXCEPT !.shown =
                  Append(probe.shown,
                         formatCellForDisplay(probe.type,
                                              IF probe.shown = <<>> THEN probe.text
                                              ELSE probe.shown[Len(probe.shown)]))]
  /\ UNCHANGED widget

CodecNext == BuildUpdate \/ ParseFields \/ MergeOptions \/ FormatCell

CodecSpec == CodecInit /\ [][CodecNext]_vars

----------------------------------------------------------------------------
(***************************************************************************)
(* The sync orchestrator: full sync.                                       *)
(***************************************************************************)
\* the sync t is lost in transport: one of its two requests threw
TransportFailed(t) ==
  \/ t.schemaRes # <<>> /\ t.schemaRes[1].kind = "throw"
  \/ t.queryRes # <<>> /\ t.queryRes[1].kind = "throw"

BothAnswered(t) ==
  /\ ~TransportFailed(t)
  /\ t.schemaRes # <<>> /\ t.queryRes # <<>>

\* the query of the sync t was answered with a status outside 200..299
QueryRefused(t) == BothAnswered(t) /\ t.queryRes[1].status \notin 200..299

\* both requests answered, the query with a 2xx status
SyncSucceeds(t) == BothAnswered(t) /\ t.queryRes[1].status \in 200..299

\* the message carries the status and the first ApiBodyLimit characters of body
CarriesStatusAndBody(message, status, body) ==
  /\ message.status = status
  /\ Len(message.text) <= ApiBodyLimit
  /\ Len(message.text) <= Len(body)
  /\ Len(message.text) = ApiBodyLimit \/ Len(message.text) = Len(body)
  /\ message.text = SubSeq(body, 1, Len(message.text))

\* the answer says the database was not found or is not shared
SaysNotFound(res) ==
  \/ res.status = 404
  \/ Includes(res.text, <<"c", "o", "u", "l", "d", " ", "n", "o", "t", " ",
                         "f", "i", "n", "d">>)
  \/ Includes(res.text, <<"l", "o", "c", "a", "t", "e", " ",
                         "d", "a", "t", "a", "b", "a", "s", "e">>)

\* C1, as stated: a full sync that fails (query refused, or a request lost in
\* transport) changes nothing but the error message, and the message of a
\* refused query carries the status and at most 100 characters of the body.
C1AsStated ==
  [][\A i \in 1..Len(syncs) :
       (syncs' = RemoveAt(syncs, i) /\ (TransportFailed(syncs[i]) \/ QueryRefused(syncs[i])))
       => /\ UNCHANGED <<config, mirror, editingCell, view>>
          /\ QueryRefused(syncs[i]) =>
               CarriesStatusAndBody(error', syncs[i].queryRes[1].status,
                                    syncs[i].queryRes[1].text)]_vars

\* C1, amended: a full sync that fails changes nothing but the error message;
\* the message of a refused query carries the status and at most 100
\* characters of the body, unless the answer says the database was not found
\* (status 404, or a body with "could not find" or "locate database"), when it
\* is the fixed database-not-found message.
C1Amended ==
  [][\A i \in 1..Len(syncs) :
       (syncs' = RemoveAt(syncs, i) /\ (TransportFailed(syncs[i]) \/ QueryRefused(syncs[i])))
       => /\ UNCHANGED <<config, mirror, editingCell, view>>
          /\ error' # NoError
          /\ QueryRefused(syncs[i]) =>
               IF SaysNotFound(syncs[i].queryRes[1])
               THEN error' = NotFoundError
               ELSE /\ error'.kind = "Notion API:"
                    /\ CarriesStatusAndBody(error', syncs[i].queryRes[1].status,
                                            syncs[i].queryRes[1].text)]_vars

\* a refused sync has left the data of an earlier sync in place, and its
\* message holds the first 100 characters of a longer body
C1Witness ==
  /\ syncs = <<>>
  /\ lastSynced > 0 /\ Len(rows) > 0 /\ Len(columns) > 0
  /\ error.kind = "Notion API:" /\ error.status = 500
  /\ Len(error.text) = ApiBodyLimit

\* s is empty or white space only
Blank(s) == \A i \in 1..Len(s) : s[i] = " "

\* C2: with a blank endpoint or a blank collection identifier no request of a
\* full sync is issued, and the full sync sets the configuration error and
\* leaves columns, rows and the timestamp as they are.
C2Theorem ==
  [][(Blank(proxyUrl) \/ Blank(databaseId))
       => /\ Len(syncs') <= Len(syncs)
          /\ FetchFromNotion => (error' = ConfigError /\ UNCHANGED <<mirror, syncs>>)]_vars

\* the configuration error has been set under a white-space endpoint
C2Witness ==
  /\ proxyUrl = <<" ">> /\ databaseId = <<"u">>
  /\ error = ConfigError
  /\ syncs = <<>> /\ lastSynced = 0

\* the columns and rows a query result stands for: one column per field of
\* the first record, one row per record
ColumnsMatch(cols, results) ==
  IF results = <<>> THEN cols = <<>>
  ELSE /\ Len(cols) = Len(results[1].properties)
       /\ \A k \in 1..Len(cols) :
            /\ cols[k].propertyName = results[1].properties[k].name
            /\ cols[k].name = results[1].properties[k].name
            /\ cols[k].type = results[1].properties[k].value.type

RowsMatch(rs, results) ==
  /\ Len(rs) = Len(results)
  /\ \A k \in 1..Len(rs) :
       /\ rs[k].pageId = results[k].id
       /\ rs[k].cells = parseNotionProperties(results[k].properties)

\* C3: a successful full sync installs columns, rows and timestamp together,
\* all from the one query result, and the columns and the timestamp change in
\* no other step: no column of an earlier sync survives.
C3Theorem ==
  [][/\ \A i \in 1..Len(syncs) :
          (syncs' = RemoveAt(syncs, i) /\ SyncSucceeds(syncs[i]))
          => /\ ColumnsMatch(columns', syncs[i].queryRes[1].body)
             /\ RowsMatch(rows', syncs[i].queryRes[1].body)
             /\ lastSynced' = lastSynced + 1
     /\ (columns' # columns \/ lastSynced' # lastSynced)
          => \E i \in 1..Len(syncs) :
               syncs' = RemoveAt(syncs, i) /\ SyncSucceeds(syncs[i])]_vars

\* a second sync has dropped the Name column that an edit begun under the
\* first sync still names
C3Witness ==
  /\ lastSynced = 2 /\ syncs = <<>>
  /\ Len(columns) > 0 /\ ~HasColumn(columns, NameField)
  /\ editingCell # <<>> /\ editingCell[1].property = NameField

\* C4: when the schema request is answered with a non-2xx status and the
\* query succeeds, the sync completes: columns come from the first record
\* with no options on any of them, rows and timestamp are installed, and the
\* error message is not touched.
C4Theorem ==
  [][\A i \in 1..Len(syncs) :
       (/\ syncs' = RemoveAt(syncs, i)
        /\ SyncSucceeds(syncs[i])
        /\ syncs[i].schemaRes[1].status \notin 200..299)
       => /\ ColumnsMatch(columns', syncs[i].queryRes[1].body)
          /\ \A k \in 1..Len(columns') : columns'[k].options = <<>>
          /\ RowsMatch(rows', syncs[i].queryRes[1].body)
          /\ lastSynced' = lastSynced + 1
          /\ error' = error]_vars

\* the select column of the tagged collection is installed without the
\* options its schema lists
C4Witness ==
  /\ syncs = <<>> /\ error = NoError /\ lastSynced > 0
  /\ remote = DataTagged
  /\ \E k \in 1..Len(columns) :
       columns[k].type = "select" /\ columns[k].options = <<>>
  /\ Len(rows) = 2

----------------------------------------------------------------------------
(***************************************************************************)
(* The sync orchestrator: cell update.                                     *)
(***************************************************************************)
\* the cell update t has been answered with a 2xx status
UpdateSucceeds(t) == t.res # <<>> /\ t.res[1].kind = "ok"

\* the cell update t was refused or lost in transport
UpdateFails(t) == t.res # <<>> /\ t.res[1].kind # "ok"

\* after differs from before in the cell (pageId, property) only, which holds
\* the value
OnlyCellPatched(before, after, pageId, property, value) ==
  /\ Len(after) = Len(before)
  /\ Cardinality({i \in 1..Len(before) : before[i].pageId = pageId}) <= 1
  /\ \A i \in 1..Len(before) :
       IF before[i].pageId # pageId THEN after[i] = before[i]
       ELSE /\ after[i].pageId = before[i].pageId
            /\ after[i].created_time = before[i].created_time
            /\ after[i].last_edited_time = before[i].last_edited_time
            /\ DOMAIN after[i].cells = DOMAIN before[i].cells \cup {property}
            /\ after[i].cells[property] = value
            /\ \A k \in DOMAIN before[i].cells \ {property} :
                 after[i].cells[k] = before[i].cells[k]

\* C5: a cell update that succeeds writes the new value into the one cell
\* (pageId, property) and changes no other cell, no other row, no column and
\* not the timestamp; the update clears the EditingCell when it is started.
C5Theorem ==
  [][/\ \A j \in 1..Len(saves) :
          (saves' = RemoveAt(saves, j) /\ UpdateSucceeds(saves[j]))
          => /\ OnlyCellPatched(rows, rows', saves[j].pageId, saves[j].property,
                                saves[j].value)
             /\ UNCHANGED <<config, columns, lastSynced, editingCell, view>>
     /\ Len(saves') > Len(saves) => editingCell' = <<>>]_vars

\* the Name of the first record holds a typed value, the second record has
\* kept its own, and no edit is in progress
C5Witness ==
  /\ saves = <<>> /\ syncs = <<>> /\ editingCell = <<>> /\ error = NoError
  /\ Len(rows) = 2
  /\ NameField \in DOMAIN rows[1].cells /\ rows[1].cells[NameField] = <<"x">>
  /\ NameField \in DOMAIN rows[2].cells /\ rows[2].cells[NameField] = <<"B">>

\* C6: a cell update that fails (refused, or lost in transport) leaves rows,
\* columns and timestamp as they are and sets the error message, that of a
\* refusal carrying the status and at most 80 characters of the body; it
\* starts no edit, and the EditingCell was cleared when the update started.
C6Theorem ==
  [][/\ \A j \in 1..Len(saves) :
          (saves' = RemoveAt(saves, j) /\ UpdateFails(saves[j]))
          => /\ UNCHANGED <<config, mirror, editingCell, view>>
             /\ error' # NoError
             /\ saves[j].res[1].kind = "http" =>
                  /\ error'.kind = "Update failed:"
                  /\ error'.status = saves[j].res[1].status
                  /\ Len(error'.text) <= UpdateBodyLimit
                  /\ error'.text = SubSeq(saves[j].res[1].text, 1, Len(error'.text))
     /\ \A j \in 1..Len(saves') :
          (Len(saves') > Len(saves) /\ j > Len(saves)) => editingCell' = <<>>]_vars

\* a refused update has left the rows as the collection has them, with its
\* message set and no edit in progress
C6Witness ==
  /\ saves = <<>> /\ syncs = <<>> /\ editingCell = <<>>
  /\ error.kind = "Update failed:" /\ Len(error.text) = UpdateBodyLimit
  /\ Len(rows) > 0 /\ rows = ParsedRows(remote.pages)

\* C7, as stated: after a successful cell update the local cell equals what
\* the decoder yields for the value the update stored in the collection.
C7AsStated ==
  [][\A j \in 1..Len(saves) :
       (saves' = RemoveAt(saves, j) /\ UpdateSucceeds(saves[j]))
       => \A i \in 1..Len(rows'), p \in 1..Len(remote.pages) :
            (rows'[i].pageId = saves[j].pageId /\ remote.pages[p].id = saves[j].pageId)
            => rows'[i].cells[saves[j].property] =
                 parseNotionProperties(remote.pages[p].properties)[saves[j].property]]_vars

\* C8: the slot holds at most one EditingCell; a click on an editable cell
\* that is not being edited puts that cell in the slot, whatever the slot
\* held; an update request is always for the cell of the slot; with an empty
\* slot a save sends nothing and changes nothing.
C8Theorem ==
  /\ [](Len(editingCell) <= 1)
  /\ [][/\ \A r \in 1..Len(DisplayedRows), c \in 1..Len(columns) :
             (/\ ClickCell(DisplayedRows[r], columns[c])
              /\ columns[c].type \notin {"formula", "rollup", "people"}
              /\ ~(/\ editingCell # <<>>
                   /\ editingCell[1].pageId = DisplayedRows[r].pageId
                   /\ editingCell[1].property = columns[c].propertyName))
             => /\ Len(editingCell') = 1
                /\ editingCell'[1].pageId = DisplayedRows[r].pageId
                /\ editingCell'[1].property = columns[c].propertyName
                /\ editingCell'[1].columnType = columns[c].type
                /\ editingCell'[1].value =
                     CellOr(DisplayedRows[r], columns[c].propertyName, <<>>)
        /\ Len(saves') > Len(saves)
             => /\ editingCell # <<>>
                /\ saves'[Len(saves')].pageId = editingCell[1].pageId
                /\ saves'[Len(saves')].property = editingCell[1].property
        /\ editingCell = <<>>
             => /\ Len(saves') <= Len(saves)
                /\ \A v \in NewValues : SaveCellEdit(v) => UNCHANGED vars]_vars

\* an edit is in progress and another editable cell is on display
C8Witness ==
  /\ editingCell # <<>>
  /\ \E r \in 1..Len(DisplayedRows), c \in 1..Len(columns) :
       /\ IsEditing(editingCell, DisplayedRows[r], columns[c])
  /\ \E r \in 1..Len(DisplayedRows), c \in 1..Len(columns) :
       /\ columns[c].type \notin {"formula", "rollup", "people"}
       /\ ~IsEditing(editingCell, DisplayedRows[r], columns[c])

\* C9, as stated: no click starts the edit of a cell of a read-only column,
\* and no update is built for a field whose column is read-only.
C9AsStated ==
  [][/\ (editingCell' # editingCell /\ editingCell' # <<>>)
          => \A c \in 1..Len(columns) :
               columns[c].propertyName = editingCell'[1].property
               => columns[c].type \notin {"formula", "rollup", "people"}
     /\ Len(saves') > Len(saves)
          => \A c \in 1..Len(columns) :
               columns[c].propertyName = saves'[Len(saves')].property
               => columns[c].type \notin {"formula", "rollup", "people"}]_vars

----------------------------------------------------------------------------
(***************************************************************************)
(* The view deriver: grouping.                                             *)
(***************************************************************************)
\* the places of x in seq
Places(seq, x) == {i \in 1..Len(seq) : seq[i] = x}

\* part holds members of whole in the order whole has them
InOrderOf(part, whole) ==
  \A a \in 1..Len(part), b \in 1..Len(part) :
    a < b => \E i \in Places(whole, part[a]), j \in Places(whole, part[b]) : i < j

\* C10: the rows of the groups, group after group, are a permutation of the
\* sorted rows of the filtered table (no row lost, none twice), and inside
\* each group the rows keep the order the sort gave them.
C10Theorem ==
  LET sorted == getSortedRows
      groups == getGroupedRows
      shown == GroupRows(groups)
  IN /\ Len(shown) = Len(sorted)
     /\ \A i \in 1..Len(sorted) :
          Cardinality(Places(shown, sorted[i])) = Cardinality(Places(sorted, sorted[i]))
     /\ \A g \in 1..Len(groups) : InOrderOf(groups[g].rows, sorted)

\* a filter has removed a row, a sort is set, there are three groups, one of
\* two rows, and the table shows the rows in another order than the sort's
C10Witness ==
  /\ groupBy = TagField /\ sortBy # <<>>
  /\ Len(getFilteredRows) < Len(rows)
  /\ Len(getGroupedRows) = 3
  /\ \E g \in 1..Len(getGroupedRows) : Len(getGroupedRows[g].rows) = 2
  /\ GroupRows(getGroupedRows) # getSortedRows

----------------------------------------------------------------------------
(***************************************************************************)
(* The view deriver: filtering and sorting.                                *)
(***************************************************************************)
\* every member of part is a member of whole
WithinRows(part, whole) ==
  \A i \in 1..Len(part) : \E j \in 1..Len(whole) : whole[j] = part[i]

\* C11, as stated: whatever the sort and filter settings, the sorted rows are
\* the filtered rows reordered, and no row the filter rejects is among the
\* sorted or the grouped rows.
C11AsStated ==
  /\ Len(getSortedRows) = Len(getFilteredRows)
  /\ WithinRows(getSortedRows, getFilteredRows)
  /\ WithinRows(getFilteredRows, getSortedRows)
  /\ WithinRows(GroupRows(getGroupedRows), getFilteredRows)

\* the cell of the row at the column is empty: absent, the empty string or
\* the placeholder
IsEmptyCell(row, key) ==
  \/ key \notin DOMAIN row.cells
  \/ row.cells[key] = <<>>
  \/ row.cells[key] = <<EMDASH>>

\* C12: for a known filter column, is_empty keeps exactly the rows whose cell
\* is empty (absent, empty string, placeholder) and is_not_empty exactly the
\* others, whatever filterValue holds: two disjoint sets that make up the
\* unfiltered rows.
C12Theorem ==
  (filterColumn # <<>> /\ \E c \in 1..Len(columns) : columns[c].propertyName = filterColumn)
  => LET empties == Filtered(rows, columns, filterColumn, "is_empty", filterValue)
         others == Filtered(rows, columns, filterColumn, "is_not_empty", filterValue)
     IN /\ empties = SelectSeq(rows, LAMBDA row : IsEmptyCell(row, filterColumn))
        /\ others = SelectSeq(rows, LAMBDA row : ~IsEmptyCell(row, filterColumn))
        /\ Len(empties) + Len(others) = Len(rows)
        /\ \A i \in 1..Len(empties), j \in 1..Len(others) : empties[i] # others[j]
        /\ WithinRows(rows, empties \o others)
        /\ filterOp = "is_empty" => getFilteredRows = empties
        /\ filterOp = "is_not_empty" => getFilteredRows = others

\* is_empty is active with a filter value left over, and keeps a row whose
\* cell is the placeholder and a row whose cell is the empty string, not all
C12Witness ==
  /\ filterOp = "is_empty" /\ filterValue = <<"X">>
  /\ HasColumn(columns, filterColumn)
  /\ Len(getFilteredRows) < Len(rows)
  /\ \E i \in 1..Len(getFilteredRows) : getFilteredRows[i].cells[filterColumn] = <<EMDASH>>
  /\ \E i \in 1..Len(getFilteredRows) : getFilteredRows[i].cells[filterColumn] = <<>>

\* C13: the filter returns the rows as they are when the filter column is
\* unset, when it is not the propertyName of a current column, and when the
\* operator is contains or equals and filterValue is blank.
C13Theorem ==
  (\/ filterColumn = <<>>
   \/ \A c \in 1..Len(columns) : columns[c].propertyName # filterColumn
   \/ filterOp \in {"contains", "equals"} /\ Blank(filterValue))
  => getFilteredRows = rows

\* the filter column names no current column and the operator is one that
\* would keep none of the rows if it were applied
C13Witness ==
  /\ Len(rows) > 0
  /\ filterColumn # <<>> /\ ~HasColumn(columns, filterColumn)
  /\ filterOp = "is_not_empty"
  /\ getFilteredRows = rows

\* the rows whose cell at the filter column matches the text under the
\* operator, letters compared without their case
MatchingRows(op, text) ==
  SelectSeq(rows, LAMBDA row :
    LET cell == ToLowerCase(CellOr(row, filterColumn, <<>>))
    IN IF op = "contains" THEN Includes(cell, ToLowerCase(text))
                          ELSE cell = ToLowerCase(text))

ValueFilterActive ==
  /\ filterColumn # <<>> /\ HasColumn(columns, filterColumn)
  /\ filterOp \in {"contains", "equals"}
  /\ ~Blank(filterValue)

\* C14, as stated: with a known filter column and a non-blank filterValue,
\* contains keeps exactly the rows whose cell contains filterValue ignoring
\* case, and equals exactly the rows whose cell equals filterValue ignoring
\* case.
C14AsStated == ValueFilterActive => getFilteredRows = MatchingRows(filterOp, filterValue)

\* C14, amended: the text that is looked for is filterValue without the white
\* space around it.
C14Amended == ValueFilterActive => getFilteredRows = MatchingRows(filterOp, Trim(filterValue))

\* equals with a value typed with a leading blank and in lower case keeps the
\* two rows whose cell is that letter in either case, and not the others
C14Witness ==
  /\ ValueFilterActive
  /\ filterOp = "equals" /\ filterValue = <<" ", "a">>
  /\ Len(getFilteredRows) = 2
  /\ \E i \in 1..2 : getFilteredRows[i].cells[filterColumn] = <<"A">>
  /\ \E i \in 1..2 : getFilteredRows[i].cells[filterColumn] = <<"a">>

\* the key and the direction getSortedRows reads from sortBy
SortKey == SplitColon(sortBy)[1]

SortAsc == ~(Len(SplitColon(sortBy)) > 1 /\ SplitColon(sortBy)[2] = <<"d", "e", "s", "c">>)

\* C15: under every sort key and direction, two rows of the filtered input
\* whose sort values compare equal are both in the sorted rows, in the
\* relative order they have in the filtered input.
C15Theorem ==
  sortBy # <<>> =>
    \A i, j \in 1..Len(getFilteredRows) :
      (i < j /\ RowCompare(getFilteredRows[i], getFilteredRows[j], columns, SortKey, SortAsc) = 0)
      => \E m, n \in 1..Len(getSortedRows) :
           /\ m < n
           /\ getSortedRows[m] = getFilteredRows[i]
           /\ getSortedRows[n] = getFilteredRows[j]

\* a sort by a column that moves rows and in which two rows tie
C15Witness ==
  /\ sortBy # <<>> /\ SortKey # <<>>
  /\ getSortedRows # getFilteredRows
  /\ \E m, n \in 1..Len(getSortedRows) :
       /\ m < n
       /\ RowCompare(getSortedRows[m], getSortedRows[n], columns, SortKey, SortAsc) = 0
       /\ \E i \in 1..Len(getFilteredRows) : i > n /\ getFilteredRows[i] = getSortedRows[n]

\* the number a cell text stands for, 0 when it does not parse
NumberOr0(text) == IF ParseFloat(text) = <<>> THEN 0 ELSE ParseFloat(text)[1]

TextOr(option) == IF option = <<>> THEN <<>> ELSE option[1]

\* row a comes strictly before row b under the sort key: the time stamps of
\* the rows as strings for the two time keys, the cells as numbers for a column
\* of type number, the cells as strings without case for any other key
Before(a, b, key) ==
  IF key = CreatedTime
  THEN CompareBy(CodeOrder, TextOr(a.created_time), TextOr(b.created_time)) < 0
  ELSE IF key = LastEditedTime
  THEN CompareBy(CodeOrder, TextOr(a.last_edited_time), TextOr(b.last_edited_time)) < 0
  ELSE IF \E c \in 1..Len(columns) :
            /\ columns[c].propertyName = key /\ columns[c].type = "number"
            /\ \A d \in 1..(c - 1) : columns[d].propertyName # key
  THEN NumberOr0(CellOr(a, key, <<>>)) < NumberOr0(CellOr(b, key, <<>>))
  ELSE CompareBy(CodeOrder, ToLowerCase(CellOr(a, key, <<>>)),
                            ToLowerCase(CellOr(b, key, <<>>))) < 0

\* C16: the comparator of the sort is, by key, the numeric order of the
\* parsed cells (0 for a cell that does not parse) for a number column, the
\* order of the lowercased cells for any other column and the order of the
\* time stamp strings for the two time keys; descending is its exact
\* reverse and every direction other than desc is ascending. The sorted rows
\* are the filtered rows in that order.
C16Theorem ==
  (sortBy # <<>> /\ SortKey # <<>>) =>
    /\ \A i, j \in 1..Len(rows) :
         LET forward == IF Before(rows[i], rows[j], SortKey) THEN -1
                        ELSE IF Before(rows[j], rows[i], SortKey) THEN 1 ELSE 0
         IN /\ RowCompare(rows[i], rows[j], columns, SortKey, TRUE) = forward
            /\ RowCompare(rows[i], rows[j], columns, SortKey, FALSE) = 0 - forward
    /\ SortAsc = (Len(SplitColon(sortBy)) < 2 \/ SplitColon(sortBy)[2] # <<"d", "e", "s", "c">>)
    /\ Len(getSortedRows) = Len(getFilteredRows)
    /\ WithinRows(getFilteredRows, getSortedRows)
    /\ \A m, n \in 1..Len(getSortedRows) :
         m < n => IF SortAsc THEN ~Before(getSortedRows[n], getSortedRows[m], SortKey)
                             ELSE ~Before(getSortedRows[m], getSortedRows[n], SortKey)

\* an ascending sort by the number column has the row with cell 2 before the
\* row with cell 10, and a cell that does not parse before both
C16Witness ==
  /\ sortBy # <<>> /\ SortAsc
  /\ \E c \in 1..Len(columns) : columns[c].propertyName = SortKey /\ columns[c].type = "number"
  /\ \E k, m, n \in 1..Len(getSortedRows) :
       /\ k < m /\ m < n
       /\ CellOr(getSortedRows[k], SortKey, <<"?">>) = <<>>
       /\ CellOr(getSortedRows[m], SortKey, <<>>) = <<"2">>
       /\ CellOr(getSortedRows[n], SortKey, <<>>) = <<"1", "0">>

----------------------------------------------------------------------------
(***************************************************************************)
(* The view deriver: grouping.                                             *)
(***************************************************************************)
\* the row has no value at the key: no cell, or a cell decoded to the empty
\* string
MissingAt(row, key) == key \notin DOMAIN row.cells \/ row.cells[key] = <<>>

\* C17, as stated: when grouping by a known column, every row with a missing
\* value at groupBy (cell absent or the empty string) is in the one bucket
\* keyed by the placeholder, and every other row is in the bucket keyed by its
\* cell value.
C17AsStated ==
  (groupBy # <<>> /\ HasColumn(columns, groupBy)) =>
    \A g \in 1..Len(getGroupedRows) : \A r \in 1..Len(getGroupedRows[g].rows) :
      LET row == getGroupedRows[g].rows[r]
      IN getGroupedRows[g].groupValue =
           IF MissingAt(row, groupBy) THEN <<EMDASH>> ELSE row.cells[groupBy]

----------------------------------------------------------------------------
(***************************************************************************)
(* The property mapper.                                                    *)
(***************************************************************************)
\* C18, as stated: decoding a field map never throws and gives a cell for
\* every field of the map, whatever the type tag and the shape of the value.
C18AsStated ==
  (probe.type = "raw" /\ probe.stage # "fields") =>
    /\ probe.stage = "cells"
    /\ \A name \in Names(probe.fields) : name \in DOMAIN probe.cells[1]

\* C19, as stated: once a full sync has succeeded, every row has a cell for
\* the propertyName of every current column, also after cell updates.
C19AsStated ==
  lastSynced > 0 =>
    \A r \in 1..Len(rows), c \in 1..Len(columns) :
      columns[c].propertyName \in DOMAIN rows[r].cells

\* C20: for title, rich_text, url and date and every text s, the empty one
\* included, building the update of a field from s and decoding the built
\* field map gives back s under the field's name; neither step throws.
C20Theorem ==
  probe.type \in {"title", "rich_text", "url", "date"} =>
    /\ probe.stage # "thrown"
    /\ probe.stage = "fields" =>
         /\ Names(probe.fields) = {KeyField}
         /\ Lookup(probe.fields, KeyField).type = probe.type
    /\ probe.stage = "cells" =>
         /\ DOMAIN probe.cells[1] = {KeyField}
         /\ probe.cells[1][KeyField] = probe.text

\* the empty text, built into a date that is null and decoded back
C20Witness ==
  /\ probe.stage = "cells" /\ probe.type = "date" /\ probe.text = <<>>
  /\ Lookup(probe.fields, KeyField).val = <<>>
  /\ probe.cells[1][KeyField] = <<>>

\* C21, as stated: the number payload built from a text is null for the
\* empty text and otherwise the float the text parses to, null when it parses
\* to none; building never throws.
C21AsStated ==
  (probe.type = "number" /\ probe.stage \in {"fields", "cells", "thrown"}) =>
    /\ probe.stage # "thrown"
    /\ Lookup(probe.fields, KeyField).type = "number"
    /\ Lookup(probe.fields, KeyField).val =
         IF probe.text = <<>> THEN <<>> ELSE ParseFloat(probe.text)

\* the option list the schema exposes for the column under the column's
\* type, as an option: none when the schema, its properties, the field or
\* the list is absent or the list is empty
ExposedOptions(col, schema) ==
  IF schema = <<>> \/ schema[1].properties = <<>> THEN <<>>
  ELSE IF col.propertyName \notin Names(schema[1].properties[1]) THEN <<>>
  ELSE LET prop == Lookup(schema[1].properties[1], col.propertyName)
           member == IF col.type = "select" THEN prop.select
                     ELSE IF col.type = "status" THEN prop.status
                     ELSE <<>>
       IN IF member = <<>> \/ member[1].options = <<>> \/ member[1].options[1] = <<>>
          THEN <<>>
          ELSE member[1].options

\* C22, as stated: mergeSchemaOptions gives every select column and every
\* status column for which the schema exposes a non-empty option list that
\* list (name and color, "default" for an absent color) and returns every
\* other column, and every column under an absent schema, unchanged.
C22AsStated ==
  probe.stage = "merged" =>
    /\ Len(probe.merged) = Len(probe.columns)
    /\ \A i \in 1..Len(probe.columns) :
         LET col == probe.columns[i]
             exposed == ExposedOptions(col, probe.schema)
         IN probe.merged[i] =
              IF exposed = <<>> THEN col
              ELSE [col EXCEPT !.options =
                      <<[k \in 1..Len(exposed[1]) |->
                           [name |-> exposed[1][k].name,
                            color |-> IF exposed[1][k].color = <<>> THEN "default"
                                      ELSE exposed[1][k].color[1]]]>>]

\* C23: the columns a successful sync installs are one per field of the
\* first record of the result, in the order of its field map, each with the
\* field's name as name and propertyName and the field's own type tag; a field
\* that only a later record has gives no column, and a result without records
\* gives no column, whatever the schema request returned.
C23Theorem ==
  [][\A i \in 1..Len(syncs) :
       (syncs' = RemoveAt(syncs, i) /\ SyncSucceeds(syncs[i]))
       => LET results == syncs[i].queryRes[1].body
          IN /\ results = <<>> => columns' = <<>>
             /\ results # <<>> =>
                  /\ [k \in 1..Len(columns') |->
                        <<columns'[k].name, columns'[k].propertyName, columns'[k].type>>]
                     = [k \in 1..Len(results[1].properties) |->
                          <<results[1].properties[k].name, results[1].properties[k].name,
                            results[1].properties[k].value.type>>]
                  /\ \A r \in 2..Len(results) :
                       \A name \in Names(results[r].properties) \ Names(results[1].properties) :
                         ~HasColumn(columns', name)]_vars

\* a sync has installed a row with a cell under a field that the first
\* record has not, and no column for it
C23Witness ==
  /\ lastSynced > 0
  /\ \E r \in 1..Len(rows) :
       /\ TagField \in DOMAIN rows[r].cells
       /\ ~HasColumn(columns, TagField)
       /\ HasColumn(columns, NameField) /\ HasColumn(columns, ScoreField)

----------------------------------------------------------------------------
(***************************************************************************)
(* The display formatter.                                                  *)
(***************************************************************************)
\* C24, as stated: for every column type and every decoded cell, formatting
\* the formatted text again gives the formatted text.
C24AsStated == Len(probe.shown) = 2 => probe.shown[2] = probe.shown[1]

----------------------------------------------------------------------------
(***************************************************************************)
(* The sync orchestrator: retry after a failure.                           *)
(***************************************************************************)
\* a failure is on display and no sync is under way
FailureShown == error # NoError /\ syncs = <<>>

\* C25: no failure is fatal.  In every state that shows a failure (of the
\* configuration, of the remote or of the transport, from a sync or from a
\* cell update) a full sync with a non-blank configuration is accepted; it
\* empties the error message when it starts, and when its query is answered
\* with success it replaces columns and rows by the new result and leaves the
\* error message as it is, that is empty unless another operation has failed
\* in the meantime.
C25Theorem ==
  /\ []((FailureShown /\ ~ConfigMissing /\ sent < MaxSent)
        => ENABLED (FetchFromNotion /\ Len(syncs') = 1))
  /\ [][/\ (FetchFromNotion /\ ~ConfigMissing)
             => /\ error' = NoError
                /\ Len(syncs') = Len(syncs) + 1
                /\ UNCHANGED <<mirror, editingCell>>
        /\ \A i \in 1..Len(syncs) :
             (syncs' = RemoveAt(syncs, i) /\ SyncSucceeds(syncs[i]))
             => /\ ColumnsMatch(columns', syncs[i].queryRes[1].body)
                /\ RowsMatch(rows', syncs[i].queryRes[1].body)
                /\ error' = error]_vars

\* two syncs and nothing else have run on a collection without records: the
\* first has failed, the second has installed the empty result and the error
\* message is empty
C25Witness ==
  /\ sent = 2 /\ lastSynced = 1
  /\ columns = <<>> /\ rows = <<>>
  /\ syncs = <<>> /\ saves = <<>>
  /\ error = NoError

----------------------------------------------------------------------------
(***************************************************************************)
(* The view deriver: purity.                                               *)
(***************************************************************************)
\* C26: rendering, which computes the grouped view (and with it the sorted
\* and the filtered view) and the filtered view on its own, leaves the stored
\* rows, the stored columns and the view parameters as they are, so that each
\* of the three views is the same whenever it is computed again.
C26Theorem ==
  [][Render => (rows' = rows /\ columns' = columns /\ view' = view)]_vars

\* the filter hands the stored rows through, the sort orders them
\* differently, and the grouping splits them
C26Witness ==
  /\ FilteredArray(rows, columns, filterColumn, filterOp, filterValue).stored
  /\ sortBy # <<>> /\ SortKey # <<>>
  /\ getSortedRows # rows
  /\ Len(getGroupedRows) > 1
  /\ ENABLED Render

----------------------------------------------------------------------------
(***************************************************************************)
(* The view deriver: the order of the buckets.                             *)
(***************************************************************************)
Reverse(seq) == [i \in 1..Len(seq) |-> seq[Len(seq) + 1 - i]]

BucketOrder(groups) == [g \in 1..Len(groups) |-> groups[g].groupValue]

\* C27, as stated: under every column the buckets are in ascending order of
\* their keys, numeric when the column is a number column and both keys parse,
\* lexical otherwise, and that order is the same whatever the order in which
\* the rows are met.
C27AsStated ==
  \A c \in 1..Len(columns) :
    LET by == columns[c].propertyName
        order == BucketOrder(Grouped(rows, columns, by))
    IN /\ \A g \in 1..(Len(order) - 1) :
            KeyCompare(order[g], order[g + 1], columns[c].type = "number") <= 0
       /\ order = BucketOrder(Grouped(Reverse(rows), columns, by))

----------------------------------------------------------------------------
(***************************************************************************)
(* A full sync that overlaps a cell update.                                *)
(***************************************************************************)
\* the sync's query was answered before a write of the update was applied:
\* while a sync is out the remote changes through updatePage only
AnsweredBeforeWrite(t) ==
  /\ ~Rejected(t) /\ Answered(t)
  /\ ~QueryFailed(t.schemaRes[1], t.queryRes[1])
  /\ t.queryRes[1].body # remote.pages

\* C28, as stated: when a sync whose query was answered before the update's
\* write settles after the update has settled, the local cells equal what the
\* remote holds, so the confirmed edit is not overwritten by the older answer.
C28AsStated ==
  [][\A i \in 1..Len(syncs) :
       (FetchSettled(i) /\ saves = <<>> /\ AnsweredBeforeWrite(syncs[i]))
         => rows' = ParsedRows(remote.pages)]_vars

----------------------------------------------------------------------------
(***************************************************************************)
(* The cell being edited and the table.                                    *)
(***************************************************************************)
\* C29, as stated: the cell being edited is the cell of a current row under
\* a current column, and the type it carries is that column's current type.
C29AsStated ==
  editingCell # <<>> =>
    /\ \E r \in 1..Len(rows) : rows[r].pageId = editingCell[1].pageId
    /\ \E c \in 1..Len(columns) :
         /\ columns[c].propertyName = editingCell[1].property
         /\ columns[c].type = editingCell[1].columnType

----------------------------------------------------------------------------
(***************************************************************************)
(* The sort options of the columns.                                        *)
(***************************************************************************)
\* C30, as stated: once the option built for a column and a direction is
\* chosen, getSortedRows orders the filtered rows by that column's cells in
\* that direction, and buildSorts gives one directive, by property, with the
\* column's propertyName and that direction.
C30AsStated ==
  \A c \in 1..Len(columns), dir \in {Asc, Desc} :
    LET p == columns[c].propertyName
    IN sortBy = p \o dir =>
         /\ getSortedRows = SortRows(getFilteredRows, columns, p, dir = Asc)
         /\ buildSorts(sortBy)
              = <<[by |-> "property", key |-> p,
                   direction |-> IF dir = Desc THEN "descending" ELSE "ascending"]>>

====
